---- MODULE Spec2Model ----
(***************************************************************************)
(* Chunked, parallel, multi-feature analysis engine of vid-analyzer.       *)
(*                                                                         *)
(* One run of one feature program is modelled: the formant program         *)
(* (process_features/src/modules/formant_analysis.rs), the pitch program   *)
(* (process_audio/src/main.rs), the jitter/shimmer program                 *)
(* (process_features/src/modules/jitter_shimmer.rs), the spectral          *)
(* program (process_features/src/modules/spectral_features.rs); and the    *)
(* RMS and energy program (process_volume/src/main.rs).                    *)
(*                                                                         *)
(* Representation of numbers.  A raw decoder sample is an integer s; the   *)
(* channel buffers hold the quotient s / i32::MAX as the pair              *)
(* <<s, I32_MAX>>.  A time stamp n / samplerate is stored as the           *)
(* numerator n (a sample index).  Cells of the CSV table are strings,      *)
(* built by the formatting operators below.                                *)
(***************************************************************************)
EXTENDS Integers, Sequences, FiniteSets, TLC

VARIABLES
    feature,          \* which program runs: "formant", "pitch", "jitter", "spectral", "volume"
    samplerate,       \* flac.streaminfo().sample_rate
    channels,         \* flac.streaminfo().channels
    stream,           \* flac.samples(): the interleaved raw samples
    bits_per_sample,  \* bits per sample of the stream (streaminfo)
    frame_len,        \* analysis frame (jitter: window_len) in samples
    hop_len,          \* hop between frames in samples
    chunk_samples,    \* stride of the chunk plan
    overlap_samples,  \* lookahead of each chunk
    min_f0,           \* jitter: lowest F0 searched, in Hz
    max_f0,           \* jitter: highest F0 searched, in Hz
    pc,               \* position of the main thread
    channel_buffers,  \* Vec<Vec<f64>>, one buffer per channel
    headers,          \* the header record written to the CSV file
    channel_results,  \* one result sequence per channel handled so far
    start,            \* cursor of the chunk planner
    chunk_indices,    \* the chunk plan (jitter: window_indices) of the current channel
    task,             \* state of each parallel task of the current channel
    results,          \* the collect() target: one slot per task, by position
    chunk_bar,        \* progress counter of finished tasks of the current channel
    channel_bar,      \* progress counter of finished channels
    rows,             \* the data records written to the CSV file
    arrival,          \* the tasks of the current channel in the order they finished
    rerun,            \* whether this is the second run of the program on this input
    prev_rows,        \* header and data records of the first run
    args,             \* driver: env::args(), the program name first
    arg_index,        \* driver: the cursor i of the argument loop
    options,          \* driver: the ten Option<String> of the flags, by flag
    ran,              \* driver: the calls of process() made so far, in order
    created,          \* driver: the output files created so far
    exit_status       \* driver: the exit status, None while the driver runs

vars == << feature, samplerate, channels, stream, bits_per_sample, frame_len, hop_len,
           chunk_samples, overlap_samples, min_f0, max_f0, pc, channel_buffers, headers,
           channel_results, start, chunk_indices, task, results, chunk_bar,
           channel_bar, rows, arrival, rerun, prev_rows, args, arg_index, options,
           ran, created, exit_status >>

\* the state of the multi-feature driver
driver == << args, arg_index, options, ran, created, exit_status >>

\* what a feature program never changes: the stream with its header, and the
\* state of the driver that called it
inputs == << feature, samplerate, channels, stream, bits_per_sample, driver >>
params == << frame_len, hop_len, chunk_samples, overlap_samples, min_f0, max_f0 >>

(***************************************************************************)
(* Bounds of the model.                                                    *)
(***************************************************************************)
MaxChannels == 2    \* channel counts 1..MaxChannels
MaxStrides == 2     \* long channels hold 1..MaxStrides full strides ...
MaxTail == 2        \* ... plus 0..MaxTail samples; short ones end near one frame

(***************************************************************************)
(* Program constants.                                                      *)
(***************************************************************************)
I32_MAX == 2147483647
SilenceDen == 1000000        \* the silence threshold 1e-6 is 1 / SilenceDen
ChunkSec == 5
FrameMs == 25
HopMs == 10
WindowMs == 50
MinFormantFrame == 512

Min(a, b) == IF a <= b THEN a ELSE b
Max(a, b) == IF a >= b THEN a ELSE b
Abs(a) == IF a < 0 THEN -a ELSE a

\* (ms / 1000.0 * samplerate as f64) as usize
MsToSamples(ms, sr) == (ms * sr) \div 1000

\* (chunk_sec * samplerate as f64) as usize
ChunkSamplesOf(sr) == ChunkSec * sr

FrameLenOf(f, sr) == IF f = "jitter" THEN MsToSamples(WindowMs, sr)
                     ELSE MsToSamples(FrameMs, sr)

\* the pitch program leaves hop_len to the estimator; spectral and volume
\* frames do not overlap (frame_hop = frame_len)
HopLenOf(f, sr) == CASE f = "pitch" -> MsToSamples(FrameMs, sr) \div 4
                     [] f = "spectral" -> MsToSamples(FrameMs, sr)
                     [] f = "volume" -> MsToSamples(FrameMs, sr)
                     [] OTHER -> MsToSamples(HopMs, sr)

(***************************************************************************)
(* Formatting: format!("{:.d}", num / den) for num >= 0, den > 0.  The     *)
(* sample rates of the model give quotients that are never within a        *)
(* rounding error of a tie, so rounding the exact quotient to the nearest  *)
(* is what the float formatting prints.                                    *)
(***************************************************************************)
RECURSIVE Pow10(_)
Pow10(d) == IF d = 0 THEN 1 ELSE 10 * Pow10(d - 1)

RECURSIVE Digits(_, _)
Digits(x, d) == IF d = 0 THEN "" ELSE Digits(x \div 10, d - 1) \o ToString(x % 10)

Round(num, den, d) == (2 * num * Pow10(d) + den) \div (2 * den)

Fmt(num, den, d) ==
    LET q == Round(num, den, d)
    IN  ToString(q \div Pow10(d)) \o "." \o Digits(q % Pow10(d), d)

\* Option<f64>: <<>> is None, <<<<num, den>>>> is Some(num / den)
None == << >>
Some(num, den) == << <<num, den>> >>

\* opt.map(|x| format!("{:.d}", x)).unwrap_or_default()
FmtOpt(opt, d) == IF opt = None THEN "" ELSE Fmt(opt[1][1], opt[1][2], d)

(***************************************************************************)
(* Channel demultiplexer: sample i of the stream goes to channel i mod C.  *)
(***************************************************************************)
\* number of stream indices i in 0..n-1 with i mod C = c
ChannelLen(n, C, c) == IF n > c THEN (n - c - 1) \div C + 1 ELSE 0

\* s as f64 / i32::MAX as f64, the quotient kept as <<numerator, denominator>>
Normalize(s) == <<s, I32_MAX>>

RECURSIVE Pow2(_)
Pow2(n) == IF n = 0 THEN 1 ELSE 2 * Pow2(n - 1)

\* pre-process_hubert: sample? as f32 / max_value, max_value being
\* 1 << (bits_per_sample - 1)
NormalizeByDepth(s, bits) == << s, Pow2(bits - 1) >>

\* pre-process_hubert: the normalised samples, then split by i % channels
HubertSamples(st, bits) == [i \in 1..Len(st) |-> NormalizeByDepth(st[i], bits)]
HubertDemux(samples, C) ==
    [c \in 1..C |->
        [j \in 1..ChannelLen(Len(samples), C, c - 1) |-> samples[(j - 1) * C + c]]]

\* sample i of the stream sent to channel (i + 1) mod C
DemuxRotated(st, C) ==
    [c \in 1..C |->
        LET d == (c % C) + 1
        IN  [j \in 1..ChannelLen(Len(st), C, d - 1) |-> Normalize(st[(j - 1) * C + d])]]

Demux(st, C) ==
    [c \in 1..C |->
        [j \in 1..ChannelLen(Len(st), C, c - 1) |-> Normalize(st[(j - 1) * C + c])]]

\* samples.iter().any(|&v| v.abs() > 1e-6): for an integer numerator n and a
\* denominator d, |n| / d > 1 / SilenceDen iff |n| > d \div SilenceDen
Audible(v) == Abs(v[1]) > v[2] \div SilenceDen
has_audio(samples) == \E j \in 1..Len(samples) : Audible(samples[j])

(***************************************************************************)
(* Chunk planner: one iteration of the while loop.                         *)
(***************************************************************************)
\* mutant: the lookahead is left out of the chunk's end
ChunkEndNoOverlap(st, cs, ov, L) == Min(st + cs, L)

\* let end = (start + chunk_samples + overlap_samples).min(len)
ChunkEnd(st, cs, ov, L) == Min(st + cs + ov, L)

\* mutant: the cursor advances past the lookahead too
NextStartPastOverlap(st, cs, ov) == st + cs + ov

\* mutant: the cursor does not advance
NextStartStuck(st, cs, ov) == st

\* start += chunk_samples
NextStart(st, cs, ov) == st + cs

\* let total_chunks = (samples.len() + chunk_samples - 1) / chunk_samples,
\* for chunk_samples > 0
TotalChunks(len, cs) == (len + cs - 1) \div cs

(***************************************************************************)
(* Feature kernels.                                                        *)
(***************************************************************************)
\* number of iterations of `while frame_start + frame_len <= n { ...; frame_start += hop }`
\* for hop > 0
FrameCount(n, fl, hop) == IF n < fl THEN 0 ELSE (n - fl) \div hop + 1

(***************************************************************************)
(* Formant kernel.  Its result depends on the signs and the order of the   *)
(* autocorrelation values only, so the samples are taken by their          *)
(* numerators and the pre-emphasised signal is kept times 100:             *)
(* 100 * s[i] - 97 * s[i - 1].  The arithmetic is exact.                   *)
(***************************************************************************)
PreEmphasisPct == 97
AutocorrWindow == 1024
MinFormantHz == 200
MaxFormantHz == 3000
MaxFormants == 4

RECURSIVE SumRange(_, _, _)
SumRange(f, lo, hi) ==
    IF lo > hi THEN 0
    ELSE IF lo = hi THEN f[lo]
    ELSE LET mid == (lo + hi) \div 2
         IN  SumRange(f, lo, mid) + SumRange(f, mid + 1, hi)

\* pre_emphasized, times 100
PreEmphasized(samples) ==
    [i \in 1..Len(samples) |->
        IF i = 1 THEN 100 * samples[1][1]
        ELSE 100 * samples[i][1] - PreEmphasisPct * samples[i - 1][1]]

\* autocorr[lag]
Autocorr(pe, window_size, lag) ==
    SumRange([i \in 1..window_size - lag |-> pe[i] * pe[i + lag]], 1, window_size - lag)

\* a / b < c / d for positive denominators
RatLess(x, y) == x[1] * y[2] < y[1] * x[2]

\* the list in the order it has
Unsorted(fs) == fs

\* formants.sort_by(|a, b| a.partial_cmp(b).unwrap()): insertion of each
\* element behind the elements that are not greater
RECURSIVE SortAscending(_)
SortAscending(fs) ==
    IF Len(fs) <= 1 THEN fs
    ELSE LET rest == SortAscending(SubSeq(fs, 1, Len(fs) - 1))
             x == fs[Len(fs)]
             k == Cardinality({i \in 1..Len(rest) : ~RatLess(x, rest[i])})
         IN  SubSeq(rest, 1, k) \o << x >> \o SubSeq(rest, k + 1, Len(rest))

\* formants.truncate(4)
Truncate(fs, n) == SubSeq(fs, 1, Min(n, Len(fs)))

\* whether lag i passes the tests of the peak loop: a local maximum of the
\* autocorrelation above a tenth of autocorr[0], at a frequency
\* sample_rate / i within 200..3000 Hz
IsFormantPeak(pe, window_size, sample_rate, i) ==
    LET a == Autocorr(pe, window_size, i)
    IN  /\ a > Autocorr(pe, window_size, i - 1)
        /\ a > Autocorr(pe, window_size, i + 1)
        /\ 10 * a > Autocorr(pe, window_size, 0)
        /\ sample_rate >= MinFormantHz * i
        /\ sample_rate <= MaxFormantHz * i

\* the frequencies pushed by the peak loop, as <<sample_rate, lag>>, in the
\* order of the loop
FormantPeaks(samples, sample_rate) ==
    LET pe == PreEmphasized(samples)
        window_size == Min(AutocorrWindow, Len(samples))
        min_formant_samples == sample_rate \div MaxFormantHz
        max_formant_samples == sample_rate \div MinFormantHz
        last == Min(max_formant_samples, window_size \div 2 - 1) - 1
        lags == [k \in 1..Max(0, last - min_formant_samples + 1) |->
                    min_formant_samples + k - 1]
        peaks == SelectSeq(lags, LAMBDA i : IsFormantPeak(pe, window_size, sample_rate, i))
    IN  [k \in 1..Len(peaks) |-> << sample_rate, peaks[k] >>]

\* the kernel without the early return for short frames: the peak loop of a
\* short frame, and the sample rate as a frequency when it finds nothing
find_formants_short(samples, sample_rate) ==
    IF Len(samples) >= 3 /\ FormantPeaks(samples, sample_rate) # << >>
    THEN Truncate(SortAscending(FormantPeaks(samples, sample_rate)), MaxFormants)
    ELSE << << sample_rate, 1 >> >>

\* find_formants.  Frames of 512 samples and more need a sample rate of
\* 20480 Hz and more.
find_formants(samples, sample_rate) ==
    CASE Len(samples) < MinFormantFrame -> << >>
      [] Len(samples) >= MinFormantFrame ->
            Truncate(SortAscending(FormantPeaks(samples, sample_rate)), MaxFormants)

\* let frame = &chunk[frame_start..frame_end], frame_end being frame_start + frame_len
ChunkFrame(chunk, frame_start, fl) == SubSeq(chunk, frame_start + 1, frame_start + fl)

\* the closure of the formant program's par_iter().map(): every frame of the chunk
FormantChunk(buf, st, en, fl, hop, sr) ==
    LET chunk == SubSeq(buf, st + 1, en)
    IN  [j \in 1..FrameCount(Len(chunk), fl, hop) |->
            LET frame_start == (j - 1) * hop
            IN  [t |-> st + frame_start,
                 v |-> find_formants(ChunkFrame(chunk, frame_start, fl), sr)]]

\* The pitch estimator is the external pyin crate.  It is modelled as a
\* deterministic function of the chunk: centred framing gives one frame every
\* hop samples, frame j at local time j * hop / sample_rate, and a frame
\* without an audible sample is unvoiced (NaN).
PyinF0(chunk, centre, fl, sr) ==
    LET lo == Max(1, centre + 1 - fl \div 2)
        hi == Min(Len(chunk), centre + fl \div 2)
    IN  IF \E i \in lo..hi : Audible(chunk[i]) THEN Some(sr, fl) ELSE None

\* the closure of the pitch program's par_iter().map()
PitchChunk(buf, st, en, fl, hop, sr) ==
    LET chunk == SubSeq(buf, st + 1, en)
    IN  [j \in 1..(Len(chunk) \div hop + 1) |->
            [t |-> (j - 1) * hop + st,
             v |-> PyinF0(chunk, (j - 1) * hop, fl, sr)]]

(***************************************************************************)
(* Jitter, shimmer and HNR kernel.  The measures are ratios, so the        *)
(* windowed signal is kept as integers: entry i is the numerator of sample *)
(* i times four times the Hann weight 0.5 * (1 - cos(2 pi i / (n - 1))),   *)
(* which is a whole number for windows of 2, 3, 4, 5 and 7 points.  Other  *)
(* window lengths are outside this model.  The arithmetic is exact; the    *)
(* floating-point results differ from it by rounding errors of the order   *)
(* 1e-14, which do not change a comparison on the windows of this model.   *)
(***************************************************************************)
MinF0 == 50
MaxF0 == 500

Hann4(n) ==
    CASE n = 2 -> << 0, 0 >>
      [] n = 3 -> << 0, 4, 0 >>
      [] n = 4 -> << 0, 3, 3, 0 >>
      [] n = 5 -> << 0, 2, 4, 2, 0 >>
      [] n = 7 -> << 0, 1, 3, 4, 3, 1, 0 >>

\* sample * window_val for every sample of the window
Windowed(window) == [i \in 1..Len(window) |-> window[i][1] * Hann4(Len(window))[i]]

RECURSIVE SumSeq(_, _)
SumSeq(xs, n) == IF n = 0 THEN 0 ELSE SumSeq(xs, n - 1) + xs[n]

\* correlation, norm1 and norm2 of the signal with itself delayed by lag
Correlation(x, lag) ==
    LET len == Len(x) - lag
    IN  << SumSeq([i \in 1..len |-> x[i] * x[i + lag]], len),
           SumSeq([i \in 1..len |-> x[i] * x[i]], len),
           SumSeq([i \in 1..len |-> x[i + lag] * x[i + lag]], len) >>

\* the loop over the lags: best is <<correlation, norm1 * norm2, lag>> of the
\* greatest normalised correlation so far, <<0, 1, 0>> at the start; the
\* normalised correlation c / sqrt(n) exceeds the greatest so far, b / sqrt(m)
\* with b >= 0, iff c > 0 and c^2 * m > b^2 * n
RECURSIVE BestLag(_, _, _, _)
BestLag(x, lag, last, best) ==
    IF lag > last THEN best
    ELSE LET c == Correlation(x, lag)
             better == /\ c[2] > 0
                       /\ c[3] > 0
                       /\ c[1] > 0
                       /\ c[1] * c[1] * best[2] > best[1] * best[1] * c[2] * c[3]
         IN  BestLag(x, lag + 1, last,
                     IF better THEN << c[1], c[2] * c[3], lag >> ELSE best)

\* estimate_f0_autocorr.  When the search starts at lag 0 (sample_rate <
\* max_f0), lag 0 has the normalised correlation 1, or is skipped when the
\* signal is all zero; no later lag exceeds it, so best_lag stays 0 and the
\* result is None.  Otherwise the result is sample_rate / best_lag when the
\* greatest normalised correlation is above 0.3.
estimate_f0_autocorr(signal, sample_rate, min_f, max_f) ==
    LET min_lag == sample_rate \div max_f
        max_lag == sample_rate \div min_f
    IN  CASE max_lag >= Len(signal) \/ min_lag >= max_lag -> None
          [] max_lag < Len(signal) /\ min_lag < max_lag /\ min_lag = 0 -> None
          [] max_lag < Len(signal) /\ min_lag < max_lag /\ min_lag > 0 ->
                LET best == BestLag(signal, min_lag, Min(max_lag, Len(signal) - 1),
                                    << 0, 1, 0 >>)
                IN  IF 100 * best[1] * best[1] > 9 * best[2] /\ best[3] > 0
                    THEN Some(sample_rate, best[3])
                    ELSE None

\* extract_periods, for period_samples = period_samples[1] / period_samples[2]:
\* consecutive slices of period_len samples while
\* start + period_len < signal.len()
extract_periods(signal, period_samples, sample_rate) ==
    LET period_len == period_samples[1] \div period_samples[2]
    IN  IF period_len = 0 \/ period_len >= Len(signal) THEN << >>
        ELSE [k \in 1..(Len(signal) - 1) \div period_len |->
                 SubSeq(signal, (k - 1) * period_len + 1, k * period_len)]

RECURSIVE MaxAbs(_, _)
MaxAbs(xs, n) == IF n = 0 THEN 0 ELSE Max(MaxAbs(xs, n - 1), Abs(xs[n]))

\* calculate_amplitude
calculate_amplitude(period) == MaxAbs(period, Len(period))

\* mean of |d[i] - d[i-1]| over mean of d, as a percentage, for the
\* durations (in samples) or the amplitudes d
LocalPerturbation(d) ==
    LET k == Len(d)
        total == SumSeq(d, k)
    IN  IF k < 2 THEN None
        ELSE IF total > 0
        THEN Some(100 * k * SumSeq([i \in 1..k - 1 |-> Abs(d[i + 1] - d[i])], k - 1),
                  (k - 1) * total)
        ELSE None

\* mean of |d[i] - mean of d[i-2..i+2]| over mean of d, as a percentage
FivePointPerturbation(d) ==
    LET k == Len(d)
        total == SumSeq(d, k)
    IN  IF k < 5 THEN None
        ELSE IF total > 0
        THEN Some(100 * k * SumSeq([i \in 1..k - 4 |->
                                       Abs(5 * d[i + 2] - (d[i] + d[i + 1] + d[i + 2]
                                                           + d[i + 3] + d[i + 4]))], k - 4),
                  5 * (k - 4) * total)
        ELSE None

\* durations that grow from period to period
PeriodIndexes(periods) == [k \in 1..Len(periods) |-> k]

\* the durations period.len() / sample_rate, times sample_rate
PeriodLengths(periods) == [k \in 1..Len(periods) |-> Len(periods[k])]

calculate_jitter_local(periods, sample_rate) == LocalPerturbation(PeriodLengths(periods))
calculate_jitter_ppq5(periods, sample_rate) == FivePointPerturbation(PeriodLengths(periods))
calculate_shimmer_local(amplitudes) == LocalPerturbation(amplitudes)
calculate_shimmer_apq5(amplitudes) == FivePointPerturbation(amplitudes)

\* Some(10.0 * (harmonic_power / noise_power).log10()), kept as the two powers
DbOfRatio(harmonic_power, noise_power) == << << "10log10", harmonic_power, noise_power >> >>

\* the sums of signal[i] * signal[i + period_len]: << the positive products,
\* the absolute values of the others >>
Powers(signal, period_len) ==
    LET n == Max(0, Len(signal) - period_len)
        prod == [i \in 1..n |-> signal[i] * signal[i + period_len]]
    IN  << SumSeq([i \in 1..n |-> IF prod[i] > 0 THEN prod[i] ELSE 0], n),
           SumSeq([i \in 1..n |-> IF prod[i] > 0 THEN 0 ELSE -prod[i]], n) >>

\* calculate_hnr, for f0 = f0[1] / f0[2]
calculate_hnr(signal, f0, sample_rate) ==
    IF f0[1] <= 0 THEN None
    ELSE LET num_periods == (Len(signal) * f0[1]) \div (sample_rate * f0[2])
             period_len == (sample_rate * f0[2]) \div f0[1]
             harmonic_power == Powers(signal, period_len)[1]
             noise_power == Powers(signal, period_len)[2]
         IN  IF num_periods < 2 THEN None
             ELSE IF noise_power > 0 /\ harmonic_power > 0
                  THEN DbOfRatio(harmonic_power, noise_power)
             ELSE IF harmonic_power > 0 THEN Some(40, 1)
             ELSE Some(0, 1)

\* the result for a window with an F0 and fewer than five periods, the F0 left out
FewPeriodsNoF0(time, f0) == [t |-> time, v |-> << None, None, None, None, None, None >>]

\* the result for a window with an F0 and fewer than five periods
FewPeriods(time, f0) == [t |-> time, v |-> << f0, None, None, None, None, None >>]

\* analyze_window
analyze_window(window, sample_rate, time, min_f, max_f) ==
    LET windowed == Windowed(window)
        f0_hz == estimate_f0_autocorr(windowed, sample_rate, min_f, max_f)
    IN  IF f0_hz = None
        THEN [t |-> time, v |-> << None, None, None, None, None, None >>]
        ELSE LET f0 == f0_hz[1]
                 periods == extract_periods(windowed, << sample_rate * f0[2], f0[1] >>,
                                            sample_rate)
                 amplitudes == [k \in 1..Len(periods) |-> calculate_amplitude(periods[k])]
             IN  IF Len(periods) < 5 THEN FewPeriods(time, f0_hz)
                 ELSE [t |-> time,
                       v |-> << f0_hz,
                                calculate_jitter_local(periods, sample_rate),
                                calculate_jitter_ppq5(periods, sample_rate),
                                calculate_shimmer_local(amplitudes),
                                calculate_shimmer_apq5(amplitudes),
                                calculate_hnr(windowed, f0, sample_rate) >>]

\* window_indices: (0..len).step_by(hop).take_while(|i| i + window_len <= len)
WindowIndices(L, wl, hop) ==
    [j \in 1..(IF wl = 0 THEN (L + hop - 1) \div hop ELSE FrameCount(L, wl, hop)) |->
        <<(j - 1) * hop, (j - 1) * hop + wl>>]

\* what one parallel task returns
TaskResult(f, buf, st, en, fl, hop, sr) ==
    CASE f = "formant" -> FormantChunk(buf, st, en, fl, hop, sr)
      [] f = "pitch" -> PitchChunk(buf, st, en, fl, hop, sr)
      [] f = "jitter" -> analyze_window(SubSeq(buf, st + 1, en), sr, st, min_f0, max_f0)

\* whether the task's loop ends
TaskTerminates(f, st, en, fl, hop) == f # "formant" \/ hop > 0 \/ en - st < fl

(***************************************************************************)
(* Parallel chunk executor: collect() writes each task's result at the     *)
(* task's position, whenever the task finishes.                            *)
(***************************************************************************)
\* collect() filling the target in the order the tasks finish
StoreByArrival(res, k, arrived, r) == [res EXCEPT ![arrived + 1] = r]

StoreResult(res, k, arrived, r) == [res EXCEPT ![k] = r]

\* flatten() keeping the list of the last chunk only
FlattenLastOnly(res, n) == IF n = 0 THEN << >> ELSE res[n]

RECURSIVE Flatten(_, _)
Flatten(res, n) == IF n = 0 THEN << >> ELSE Flatten(res, n - 1) \o res[n]

\* the merge keeping only the entries that carry an estimate
MergedEstimatesOnly(f, res) ==
    SelectSeq(IF f = "jitter" THEN res ELSE Flatten(res, Len(res)),
              LAMBDA e : e.v # None /\ (f = "jitter" => e.v[1] # None))

\* formant, pitch: results.into_iter().flatten().collect(); jitter: results
Merged(f, res) == IF f = "jitter" THEN res ELSE Flatten(res, Len(res))

(***************************************************************************)
(* Spectral kernel.  With frame_len = 2 the FFT has size 2 and the         *)
(* magnitude spectrum is the single bin 0 (frequency 0), whose magnitude   *)
(* is 0.08 * |x0 + x1| under the Hamming window of two points: centroid,   *)
(* rolloff and bandwidth are 0, flatness is 1 when the bin is not 0 and 0  *)
(* when it is.  Other frame lengths are outside this model.                *)
(***************************************************************************)
RECURSIVE NextPowerOfTwo(_, _)
NextPowerOfTwo(n, p) == IF p >= n THEN p ELSE NextPowerOfTwo(n, 2 * p)

RECURSIVE SumNum(_, _)
SumNum(frame, n) == IF n = 0 THEN 0 ELSE SumNum(frame, n - 1) + frame[n][1]

\* calculate_zero_crossing_rate, as <<crossings, frame.len() - 1>>
ZeroCrossings(frame) ==
    Cardinality({i \in 2..Len(frame) : (frame[i][1] >= 0) # (frame[i - 1][1] >= 0)})

SpectralCells(frame, fl) ==
    CASE NextPowerOfTwo(fl, 1) = 2 ->
        << Fmt(0, 1, 2), Fmt(0, 1, 2), Fmt(0, 1, 2),
           IF SumNum(frame, Len(frame)) # 0 THEN Fmt(1, 1, 6) ELSE Fmt(0, 1, 6),
           IF Len(frame) < 2 THEN Fmt(0, 1, 6)
           ELSE Fmt(ZeroCrossings(frame), Len(frame) - 1, 6) >>

(***************************************************************************)
(* RMS and energy kernel of the volume program.  A frame of n samples with *)
(* numerators s has energy S / i32::MAX^2 and RMS sqrt(S / n) / i32::MAX,  *)
(* S the sum of the s^2.  Printed with six decimals, the RMS is k * 1e-6   *)
(* for the k nearest to sqrt(S / n) / (i32::MAX / 1e6); i32::MAX / 2e6     *)
(* lies between 1073 and 1074, so k = 0 up to sqrt(S / n) = 1073 and k = 1 *)
(* from 1074 to 3 * 1073.  The energy prints as 0.000000 below             *)
(* i32::MAX^2 / 2e6, which is above i32::MAX.  Louder frames are outside   *)
(* this model.                                                             *)
(***************************************************************************)
RECURSIVE SumSq(_, _)
SumSq(frame, n) == IF n = 0 THEN 0 ELSE SumSq(frame, n - 1) + frame[n][1] * frame[n][1]

RmsMicros(S, n) ==
    LET half == I32_MAX \div (2 * Pow10(6))
    IN  CASE S <= n * half * half -> 0
          [] S >= n * (half + 1) * (half + 1) /\ S <= n * 9 * half * half -> 1

EnergyMicros(S) == CASE S <= I32_MAX -> 0

\* format!("{:.6}", rms), format!("{:.6}", energy)
VolumeCells(frame) ==
    LET S == SumSq(frame, Len(frame))
    IN  << Fmt(RmsMicros(S, Len(frame)), Pow10(6), 6), Fmt(EnergyMicros(S), Pow10(6), 6) >>

(***************************************************************************)
(* Merger: header and rows of the CSV table.                               *)
(***************************************************************************)
Columns(f) ==
    CASE f = "formant" -> << "_f1_hz", "_f2_hz", "_f3_hz", "_f4_hz" >>
      [] f = "pitch" -> << "_pitch_hz" >>
      [] f = "jitter" -> << "_f0_hz", "_jitter_local_percent", "_jitter_ppq5_percent",
                            "_shimmer_local_percent", "_shimmer_apq5_percent", "_hnr_db" >>
      [] f = "spectral" -> << "_spectral_centroid", "_spectral_rolloff",
                              "_spectral_bandwidth", "_spectral_flatness",
                              "_zero_crossing_rate" >>
      [] f = "volume" -> << "_rms", "_energy" >>

RECURSIVE Concat(_, _)
Concat(ss, n) == IF n = 0 THEN << >> ELSE Concat(ss, n - 1) \o ss[n]

Headers(f, C) ==
    << "time_sec" >> \o
    Concat([c \in 1..C |->
               [k \in 1..Len(Columns(f)) |-> "chan" \o ToString(c) \o Columns(f)[k]]], C)

RECURSIVE MaxLenUpTo(_, _)
MaxLenUpTo(cr, n) == IF n = 0 THEN 0 ELSE Max(MaxLenUpTo(cr, n - 1), Len(cr[n]))

\* the row count taken from the first channel alone
FirstLen(cr) == IF Len(cr) = 0 THEN 0 ELSE Len(cr[1])

\* channel_results.iter().map(|v| v.len()).max().unwrap_or(0)
MaxLen(cr) == MaxLenUpTo(cr, Len(cr))

\* channel_results.iter().find_map(|chan| chan.get(i).map(|(t, _)| *t)): the
\* channel the time of row i is taken from, 0 when no channel has an entry
TimeChannelFirstOnly(cr, i) == IF Len(cr) >= 1 /\ Len(cr[1]) > i THEN 1 ELSE 0

TimeChannel(cr, i) ==
    LET have == {c \in 1..Len(cr) : Len(cr[c]) > i}
    IN  IF have = {} THEN 0 ELSE CHOOSE c \in have : \A d \in have : c <= d

\* time_sec.map(|t| format!("{:.4}", t)).unwrap_or_default()
TimeCell(cr, i, sr) ==
    LET c == TimeChannel(cr, i)
    IN  IF c = 0 THEN "" ELSE Fmt(cr[c][i + 1].t, sr, 4)

\* the cells of a channel that has an entry at the row
EntryCells(f, e) ==
    CASE f = "formant" ->
            [k \in 1..4 |-> IF k <= Len(e.v) THEN Fmt(e.v[k][1], e.v[k][2], 2) ELSE ""]
      [] f = "pitch" -> << FmtOpt(e.v, 2) >>
      [] f = "jitter" ->
            << FmtOpt(e.v[1], 2), FmtOpt(e.v[2], 4), FmtOpt(e.v[3], 4),
               FmtOpt(e.v[4], 4), FmtOpt(e.v[5], 4), FmtOpt(e.v[6], 2) >>

\* a single cell, whatever the feature, for a channel without an entry
AbsentOneCell(f) == << "" >>

\* the cells of a channel that has no entry at the row
AbsentCells(f) ==
    CASE f = "formant" -> << "", "", "", "" >>
      [] f = "pitch" -> << "no data" >>
      [] f = "jitter" -> << "", "", "", "", "", "" >>

ChannelCells(f, chan, i) ==
    IF i < Len(chan) THEN EntryCells(f, chan[i + 1]) ELSE AbsentCells(f)

\* row i (from 0) of the formant, pitch and jitter tables
Row(f, cr, i, sr) ==
    << TimeCell(cr, i, sr) >> \o
    Concat([c \in 1..Len(cr) |-> ChannelCells(f, cr[c], i)], Len(cr))

\* the cells of one channel in the spectral row of the frame at st
SpectralChannelCells(chan, st, fl) ==
    IF st >= Len(chan) THEN << "", "", "", "", "" >>
    ELSE SpectralCells(SubSeq(chan, st + 1, Min(st + fl, Len(chan))), fl)

SpectralRow(bufs, st, fl, sr) ==
    << Fmt(st, sr, 4) >> \o
    Concat([c \in 1..Len(bufs) |-> SpectralChannelCells(bufs[c], st, fl)], Len(bufs))

\* the cells of one channel in the volume row of the frame at st
VolumeChannelCells(chan, st, fl) ==
    IF st >= Len(chan) THEN << "", "" >>
    ELSE VolumeCells(SubSeq(chan, st + 1, Min(st + fl, Len(chan))))

VolumeRow(bufs, st, fl, sr) ==
    << Fmt(st, sr, 4) >> \o
    Concat([c \in 1..Len(bufs) |-> VolumeChannelCells(bufs[c], st, fl)], Len(bufs))

(***************************************************************************)
(* Inputs.                                                                 *)
(***************************************************************************)
Features == {"formant", "pitch", "jitter", "spectral", "volume"}
Chunked(f) == f \in {"formant", "pitch"}
Parallel(f) == f \in {"formant", "pitch", "jitter"}

\* sample rates; the pitch estimator needs a frame of four samples.  The
\* programs take channels and sample_rate from the stream header as they are,
\* 0 included.  Below 100 Hz the 10 ms hop of the formant and the jitter
\* program is 0 samples.
RatesOf(f) ==
    (IF f = "pitch" THEN {160} ELSE {100})
        \cup {0}
        \cup (IF f \in {"formant", "jitter"} THEN {50} ELSE {})

Patterns == {"zero", "quiet", "loud"}

\* the analysis programs do not read the bit depth; their streams are taken
\* as 16-bit streams
PipelineDepths == {16}

\* raw sample j (from 0) of a channel of L samples: all zero; all non-zero but
\* not above the silence threshold; zero with one sample just above it
Sample(p, j, L) ==
    LET q == I32_MAX \div SilenceDen
    IN  CASE p = "zero" -> 0
          [] p = "quiet" -> IF j % 2 = 0 THEN q ELSE -q
          [] p = "loud" -> IF j = L - 1 THEN -(q + 1) ELSE 0

Interleave(pat, C, n) ==
    [i \in 1..n |->
        IF C = 0 THEN Sample("loud", i - 1, i)
        ELSE LET c == (i - 1) % C
             IN  Sample(pat[c], (i - 1) \div C, ChannelLen(n, C, c))]

\* channel lengths around one frame, and around a whole number of strides; the
\* last frame of a stream of several channels may be incomplete (u = 1)
ShortLens(fl) == {0} \cup {fl - 1 + d : d \in 0..MaxTail + 1}
LongLens(cs) == {k * cs + d : k \in 1..MaxStrides, d \in 0..MaxTail}

StreamChoices(f, sr, C) ==
    LET short == {[pat |-> p, n |-> C * L - u] :
                     p \in [0..C - 1 -> Patterns],
                     L \in ShortLens(FrameLenOf(f, sr)),
                     u \in 0..Min(1, C - 1)}
        long == {[pat |-> [c \in 0..C - 1 |-> "loud"], n |-> L] :
                     L \in LongLens(ChunkSamplesOf(sr))}
        none == {[pat |-> << >>, n |-> n] : n \in 0..1}
    IN  IF C = 0 THEN none
        ELSE {x \in short : x.n >= 0}
             \cup (IF Chunked(f) /\ C = 1 THEN long ELSE {})

\* a feature program run on its own, without the driver
NoDriver ==
    /\ args = << >>
    /\ arg_index = 0
    /\ options = << >>
    /\ ran = << >>
    /\ created = {}
    /\ exit_status = None

\* the state of a run before the samples are read
Fresh ==
    /\ pc = "load"
    /\ channel_buffers = << >>
    /\ headers = << >>
    /\ channel_results = << >>
    /\ start = 0
    /\ chunk_indices = << >>
    /\ task = << >>
    /\ results = << >>
    /\ chunk_bar = 0
    /\ channel_bar = 0
    /\ rows = << >>
    /\ arrival = << >>

Init ==
    /\ feature \in Features
    /\ samplerate \in RatesOf(feature)
    /\ channels \in 0..MaxChannels
    /\ \E x \in StreamChoices(feature, samplerate, channels) :
           stream = Interleave(x.pat, channels, x.n)
    /\ frame_len = FrameLenOf(feature, samplerate)
    /\ hop_len = HopLenOf(feature, samplerate)
    /\ chunk_samples = ChunkSamplesOf(samplerate)
    /\ overlap_samples = frame_len
    /\ bits_per_sample \in PipelineDepths
    /\ min_f0 = MinF0
    /\ max_f0 = MaxF0
    /\ Fresh
    /\ rerun = FALSE
    /\ prev_rows = << >>
    /\ NoDriver

(***************************************************************************)
(* The main thread up to the channel loop.                                 *)
(***************************************************************************)
LoadSamples ==
    /\ pc = "load"
    /\ feature \in Features
    /\ channels > 0 \/ stream = << >>
    /\ channel_buffers' = Demux(stream, channels)
    /\ pc' = "header"
    /\ UNCHANGED << inputs, params, headers, channel_results, start, chunk_indices,
                    task, results, chunk_bar, channel_bar, rows, arrival, rerun, prev_rows >>

\* `i % channels` with channels = 0: the remainder by zero panics at the
\* first sample
LoadPanic ==
    /\ pc = "load"
    /\ channels = 0
    /\ stream # << >>
    /\ pc' = "panic"
    /\ UNCHANGED << inputs, params, channel_buffers, headers, channel_results, start,
                    chunk_indices, task, results, chunk_bar, channel_bar, rows, arrival,
                    rerun, prev_rows >>

WriteHeaders ==
    /\ pc = "header"
    /\ headers' = Headers(feature, channels)
    /\ pc' = IF Parallel(feature) THEN "channel" ELSE "frames"
    /\ UNCHANGED << inputs, params, channel_buffers, channel_results, start,
                    chunk_indices, task, results, chunk_bar, channel_bar, rows,
                    arrival, rerun, prev_rows >>

\* the buffer of the channel the loop is at
Current == channel_buffers[Len(channel_results) + 1]

\* the result pushed for a skipped channel, were it one entry without values
SkippedPlaceholder == << [t |-> 0, v |-> None] >>

\* channel_results.push(Vec::new())
SkippedResult == << >>

\* a channel without audio: an empty result sequence
ChannelSkip ==
    /\ pc = "channel"
    /\ Len(channel_results) < Len(channel_buffers)
    /\ ~has_audio(Current)
    /\ channel_results' = Append(channel_results, SkippedResult)
    /\ channel_bar' = channel_bar + 1
    /\ UNCHANGED << inputs, params, pc, channel_buffers, headers, start,
                    chunk_indices, task, results, chunk_bar, rows, arrival, rerun, prev_rows >>

\* the tasks of a plan, none started
Pending(plan) == [k \in 1..Len(plan) |-> "pending"]
Empty(plan) == [k \in 1..Len(plan) |-> << >>]

\* formant, pitch: a channel with audio enters the chunk planner
ChannelPlan ==
    /\ pc = "channel"
    /\ Chunked(feature)
    /\ Len(channel_results) < Len(channel_buffers)
    /\ has_audio(Current)
    /\ chunk_samples > 0
    /\ start' = 0
    /\ chunk_indices' = << >>
    /\ pc' = "plan"
    /\ UNCHANGED << inputs, params, channel_buffers, headers, channel_results,
                    task, results, chunk_bar, channel_bar, rows, arrival, rerun, prev_rows >>

\* jitter: a channel with audio gets its window_indices
ChannelWindows ==
    /\ pc = "channel"
    /\ feature = "jitter"
    /\ Len(channel_results) < Len(channel_buffers)
    /\ has_audio(Current)
    /\ hop_len > 0
    /\ chunk_indices' = WindowIndices(Len(Current), frame_len, hop_len)
    /\ task' = Pending(chunk_indices')
    /\ results' = Empty(chunk_indices')
    /\ chunk_bar' = 0
    /\ pc' = "tasks"
    /\ arrival' = << >>
    /\ UNCHANGED << inputs, params, channel_buffers, headers, channel_results,
                    start, channel_bar, rows, rerun, prev_rows >>

\* jitter with hop_len = 0: `samples.len().saturating_sub(window_len) / hop_len`
\* divides by zero
WindowsPanic ==
    /\ pc = "channel"
    /\ feature = "jitter"
    /\ Len(channel_results) < Len(channel_buffers)
    /\ has_audio(Current)
    /\ hop_len = 0
    /\ pc' = "panic"
    /\ UNCHANGED << inputs, params, channel_buffers, headers, channel_results, start,
                    chunk_indices, task, results, chunk_bar, channel_bar, rows, arrival,
                    rerun, prev_rows >>

\* formant, pitch with chunk_samples = 0: total_chunks divides by zero, before
\* the planner loop
TotalChunksPanic ==
    /\ pc = "channel"
    /\ Chunked(feature)
    /\ Len(channel_results) < Len(channel_buffers)
    /\ has_audio(Current)
    /\ chunk_samples = 0
    /\ pc' = "panic"
    /\ UNCHANGED << inputs, params, channel_buffers, headers, channel_results, start,
                    chunk_indices, task, results, chunk_bar, channel_bar, rows, arrival,
                    rerun, prev_rows >>

\* one iteration of `while start < normalized_samples.len()`
PlanStep ==
    /\ pc = "plan"
    /\ start < Len(Current)
    /\ chunk_indices' = Append(chunk_indices,
           <<start, ChunkEnd(start, chunk_samples, overlap_samples, Len(Current))>>)
    /\ start' = NextStart(start, chunk_samples, overlap_samples)
    /\ UNCHANGED << inputs, params, pc, channel_buffers, headers, channel_results,
                    task, results, chunk_bar, channel_bar, rows, arrival, rerun, prev_rows >>

\* the loop ends; the parallel iterator is set up
PlanDone ==
    /\ pc = "plan"
    /\ start >= Len(Current)
    /\ task' = Pending(chunk_indices)
    /\ results' = Empty(chunk_indices)
    /\ chunk_bar' = 0
    /\ pc' = "tasks"
    /\ arrival' = << >>
    /\ UNCHANGED << inputs, params, channel_buffers, headers, channel_results,
                    start, chunk_indices, channel_bar, rows, rerun, prev_rows >>

(***************************************************************************)
(* The parallel tasks of one channel.                                      *)
(***************************************************************************)
TaskStart(k) ==
    /\ pc = "tasks"
    /\ task[k] = "pending"
    /\ task' = [task EXCEPT ![k] = "running"]
    /\ UNCHANGED << inputs, params, pc, channel_buffers, headers, channel_results,
                    start, chunk_indices, results, chunk_bar, channel_bar, rows,
                    arrival, rerun, prev_rows >>

TaskFinish(k) ==
    /\ pc = "tasks"
    /\ task[k] = "running"
    /\ TaskTerminates(feature, chunk_indices[k][1], chunk_indices[k][2],
                      frame_len, hop_len)
    /\ results' = StoreResult(results, k, chunk_bar,
           TaskResult(feature, Current, chunk_indices[k][1], chunk_indices[k][2],
                      frame_len, hop_len, samplerate))
    /\ chunk_bar' = chunk_bar + 1
    /\ task' = [task EXCEPT ![k] = "done"]
    /\ arrival' = Append(arrival, k)
    /\ UNCHANGED << inputs, params, pc, channel_buffers, headers, channel_results,
                    start, chunk_indices, channel_bar, rows, rerun, prev_rows >>

\* collect() returning without waiting for the tasks
NoBarrier(t) == TRUE

\* collect() blocks until every task of the parallel iterator has finished
Barrier(t) == \A k \in 1..Len(t) : t[k] = "done"

\* collect() returns when every task has finished
Collect ==
    /\ pc = "tasks"
    /\ Barrier(task)
    /\ channel_results' = Append(channel_results, Merged(feature, results))
    /\ channel_bar' = channel_bar + 1
    /\ pc' = "channel"
    /\ UNCHANGED << inputs, params, channel_buffers, headers, start, chunk_indices,
                    task, results, chunk_bar, rows, arrival, rerun, prev_rows >>

(***************************************************************************)
(* Writing the table.                                                      *)
(***************************************************************************)
ChannelsDone ==
    /\ pc = "channel"
    /\ Len(channel_results) = Len(channel_buffers)
    /\ pc' = "write"
    /\ arrival' = << >>
    /\ UNCHANGED << inputs, params, channel_buffers, headers, channel_results,
                    start, chunk_indices, task, results, chunk_bar, channel_bar,
                    rows, rerun, prev_rows >>

\* one iteration of `for i in 0..max_len`
WriteRow ==
    /\ pc = "write"
    /\ Len(rows) < MaxLen(channel_results)
    /\ rows' = Append(rows, Row(feature, channel_results, Len(rows), samplerate))
    /\ UNCHANGED << inputs, params, pc, channel_buffers, headers, channel_results,
                    start, chunk_indices, task, results, chunk_bar, channel_bar,
                    arrival, rerun, prev_rows >>

\* spectral: one iteration of `for start in (0..max_len).step_by(frame_hop)`
SpectralStep ==
    /\ pc = "frames"
    /\ feature = "spectral"
    /\ hop_len > 0
    /\ start < MaxLen(channel_buffers)
    /\ rows' = Append(rows, SpectralRow(channel_buffers, start, frame_len, samplerate))
    /\ start' = start + hop_len
    /\ UNCHANGED << inputs, params, pc, channel_buffers, headers, channel_results,
                    chunk_indices, task, results, chunk_bar, channel_bar, arrival, rerun,
                    prev_rows >>

\* volume: one iteration of `for start in (0..max_len).step_by(frame_hop)`
VolumeStep ==
    /\ pc = "frames"
    /\ feature = "volume"
    /\ hop_len > 0
    /\ start < MaxLen(channel_buffers)
    /\ rows' = Append(rows, VolumeRow(channel_buffers, start, frame_len, samplerate))
    /\ start' = start + hop_len
    /\ UNCHANGED << inputs, params, pc, channel_buffers, headers, channel_results,
                    chunk_indices, task, results, chunk_bar, channel_bar, arrival, rerun,
                    prev_rows >>

\* spectral, volume with frame_hop = 0: step_by(0) panics
StepByPanic ==
    /\ pc = "frames"
    /\ hop_len = 0
    /\ pc' = "panic"
    /\ UNCHANGED << inputs, params, channel_buffers, headers, channel_results, start,
                    chunk_indices, task, results, chunk_bar, channel_bar, rows, arrival,
                    rerun, prev_rows >>

\* writer.flush() and return
Finish ==
    /\ \/ pc = "write" /\ Len(rows) >= MaxLen(channel_results)
       \/ pc = "frames" /\ hop_len > 0 /\ start >= MaxLen(channel_buffers)
    /\ pc' = "done"
    /\ UNCHANGED << inputs, params, channel_buffers, headers, channel_results,
                    start, chunk_indices, task, results, chunk_bar, channel_bar,
                    rows, arrival, rerun, prev_rows >>

\* the program is run again on the same input with the same configuration
Rerun ==
    /\ pc = "done"
    /\ ~rerun
    /\ prev_rows' = << headers, rows >>
    /\ rerun' = TRUE
    /\ pc' = "load"
    /\ channel_buffers' = << >>
    /\ headers' = << >>
    /\ channel_results' = << >>
    /\ start' = 0
    /\ chunk_indices' = << >>
    /\ task' = << >>
    /\ results' = << >>
    /\ chunk_bar' = 0
    /\ channel_bar' = 0
    /\ rows' = << >>
    /\ arrival' = << >>
    /\ UNCHANGED << inputs, params >>

Next ==
    \/ LoadSamples
    \/ LoadPanic
    \/ WriteHeaders
    \/ ChannelSkip
    \/ ChannelPlan
    \/ ChannelWindows
    \/ WindowsPanic
    \/ TotalChunksPanic
    \/ PlanStep
    \/ PlanDone
    \/ \E k \in 1..Len(task) : TaskStart(k)
    \/ \E k \in 1..Len(task) : TaskFinish(k)
    \/ Collect
    \/ ChannelsDone
    \/ WriteRow
    \/ SpectralStep
    \/ VolumeStep
    \/ StepByPanic
    \/ Finish

Spec == Init /\ [][Next]_vars

NextTwice == Next \/ Rerun

SpecTwice == Init /\ [][NextTwice]_vars

(***************************************************************************)
(* The chunk planner as a function of the channel length, chunk_samples    *)
(* and overlap_samples: the planner loop started on a channel of any       *)
(* length with any stride and lookahead.                                   *)
(***************************************************************************)
MaxPlanLen == 8        \* channel lengths 0..MaxPlanLen
MaxPlanChunk == 4      \* chunk_samples 1..MaxPlanChunk
MaxPlanOverlap == 3    \* overlap_samples 0..MaxPlanOverlap

InitPlan ==
    /\ feature = "formant"
    /\ samplerate = 100
    /\ channels = 1
    /\ \E L \in 0..MaxPlanLen :
           stream = [i \in 1..L |-> Sample("loud", i - 1, L)]
    /\ chunk_samples \in 1..MaxPlanChunk
    /\ overlap_samples \in 0..MaxPlanOverlap
    /\ frame_len = overlap_samples
    /\ hop_len = 1
    /\ bits_per_sample \in PipelineDepths
    /\ min_f0 = MinF0
    /\ max_f0 = MaxF0
    /\ pc = "plan"
    /\ channel_buffers = Demux(stream, channels)
    /\ headers = Headers(feature, channels)
    /\ channel_results = << >>
    /\ start = 0
    /\ chunk_indices = << >>
    /\ task = << >>
    /\ results = << >>
    /\ chunk_bar = 0
    /\ channel_bar = 0
    /\ rows = << >>
    /\ arrival = << >>
    /\ rerun = FALSE
    /\ prev_rows = << >>
    /\ NoDriver

NextPlan == PlanStep \/ PlanDone

SpecPlan == InitPlan /\ [][NextPlan]_vars

(***************************************************************************)
(* The window analysis on its own: analyze_window applied once to a window *)
(* of five or seven samples, at a sample rate and with F0 search ranges    *)
(* for which the search covers lags inside the window.                     *)
(***************************************************************************)
KernelRates == {600}
KernelSearch == { << 100, 600 >>, << 300, 600 >>, << 50, 500 >> }
KernelLens == {5, 7}
KernelSamples == {-1, 0, 1}

InitKernel ==
    /\ feature = "jitter"
    /\ samplerate \in KernelRates
    /\ channels = 1
    /\ \E n \in KernelLens : stream \in [1..n -> KernelSamples]
    /\ frame_len = Len(stream)
    /\ hop_len = Len(stream)
    /\ chunk_samples = Len(stream)
    /\ overlap_samples = 0
    /\ bits_per_sample \in PipelineDepths
    /\ \E r \in KernelSearch : min_f0 = r[1] /\ max_f0 = r[2]
    /\ pc = "window"
    /\ channel_buffers = Demux(stream, 1)
    /\ headers = << >>
    /\ channel_results = << >>
    /\ start = 0
    /\ chunk_indices = << >>
    /\ task = << >>
    /\ results = << >>
    /\ chunk_bar = 0
    /\ channel_bar = 0
    /\ rows = << >>
    /\ arrival = << >>
    /\ rerun = FALSE
    /\ prev_rows = << >>
    /\ NoDriver

AnalyzeWindow ==
    /\ pc = "window"
    /\ channel_results' =
           << << analyze_window(channel_buffers[1], samplerate, start, min_f0, max_f0) >> >>
    /\ pc' = "analyzed"
    /\ UNCHANGED << inputs, params, channel_buffers, headers, start, chunk_indices, task,
                    results, chunk_bar, channel_bar, rows, arrival, rerun, prev_rows >>

NextKernel == AnalyzeWindow

SpecKernel == InitKernel /\ [][NextKernel]_vars

(***************************************************************************)
(* Properties.                                                             *)
(***************************************************************************)
\* the planner runs, or has just ended, on the current channel
Planning == Chunked(feature) /\ pc \in {"plan", "tasks"}

\* C1: the planner emits exactly the pairs (start_k, end_k) with
\* start_k = k * chunk_samples and
\* end_k = min(start_k + chunk_samples + overlap_samples, L), for k = 0, 1, ...
\* while start_k < L, and stops at the first k with start_k >= L; so every
\* chunk has start_k < end_k <= L and end_k - start_k <= chunk_samples +
\* overlap_samples.
C1_PlannerPairs ==
    Planning =>
        LET L == Len(Current)
            n == Len(chunk_indices)
        IN  /\ \A k \in 1..n :
                  LET start_k == (k - 1) * chunk_samples
                      end_k == IF start_k + chunk_samples + overlap_samples <= L
                               THEN start_k + chunk_samples + overlap_samples
                               ELSE L
                  IN  /\ chunk_indices[k] = <<start_k, end_k>>
                      /\ start_k < L
                      /\ chunk_indices[k][1] < chunk_indices[k][2]
                      /\ chunk_indices[k][2] <= L
                      /\ chunk_indices[k][2] - chunk_indices[k][1]
                            <= chunk_samples + overlap_samples
            /\ pc = "plan" => start = n * chunk_samples
            /\ pc = "tasks" => n * chunk_samples >= L
            /\ pc = "tasks" /\ n > 0 => (n - 1) * chunk_samples < L

\* C1 witness: a finished plan of three chunks or more with lookahead, whose
\* first chunk is whole and whose last chunk is cut at the channel's end
C1_Witness ==
    /\ Planning
    /\ pc = "tasks"
    /\ overlap_samples > 0
    /\ Len(chunk_indices) >= 3
    /\ chunk_indices[1] = <<0, chunk_samples + overlap_samples>>
    /\ chunk_indices[Len(chunk_indices)][2] = Len(Current)
    /\ chunk_indices[Len(chunk_indices)][2] - chunk_indices[Len(chunk_indices)][1]
          < chunk_samples + overlap_samples

\* the stride interval of chunk k: [start_k, min(start_k + chunk_samples, L))
InStride(k, i) ==
    /\ chunk_indices[k][1] <= i
    /\ i < chunk_indices[k][1] + chunk_samples
    /\ i < Len(Current)

\* C2: in a finished plan the chunk starts are strictly increasing and spaced
\* by chunk_samples, and the stride intervals are contiguous and pairwise
\* disjoint with union [0, L): every sample index belongs to the stride
\* interval of exactly one chunk.
C2_StrideCover ==
    (Planning /\ pc = "tasks" /\ Len(Current) >= 1) =>
        LET n == Len(chunk_indices)
        IN  /\ n >= 1
            /\ chunk_indices[1][1] = 0
            /\ \A k \in 1..n - 1 :
                  /\ chunk_indices[k][1] < chunk_indices[k + 1][1]
                  /\ chunk_indices[k + 1][1] = chunk_indices[k][1] + chunk_samples
            /\ \A k \in 1..n : chunk_indices[k][1] < Len(Current)
            /\ \A i \in 0..Len(Current) - 1 :
                  Cardinality({k \in 1..n : InStride(k, i)}) = 1

\* C2 witness: a finished plan of several chunks with lookahead whose last
\* stride is shorter than chunk_samples
C2_Witness ==
    /\ Planning
    /\ pc = "tasks"
    /\ overlap_samples > 0
    /\ chunk_samples > 1
    /\ Len(chunk_indices) >= 2
    /\ Len(Current) % chunk_samples # 0

\* the channel the tasks of the plan in chunk_indices belong to: the current
\* one while the tasks run, the last one collected after that
Collected ==
    /\ Parallel(feature)
    /\ pc = "channel"
    /\ Len(channel_results) >= 1
    /\ has_audio(channel_buffers[Len(channel_results)])

AllDone == pc = "tasks" /\ \A k \in 1..Len(task) : task[k] = "done"

\* the result list of the task of chunk k on buffer buf
ChunkList(buf, k) ==
    LET r == TaskResult(feature, buf, chunk_indices[k][1], chunk_indices[k][2],
                        frame_len, hop_len, samplerate)
    IN  IF feature = "jitter" THEN << r >> ELSE r

\* the kernel run over chunks 1..n of the plan one after the other, each
\* chunk's list appended to the lists of the chunks before it
RECURSIVE SeqRun(_, _)
SeqRun(buf, n) == IF n = 0 THEN << >> ELSE SeqRun(buf, n - 1) \o ChunkList(buf, n)

\* the tasks finished in another order than the order of the plan
OutOfOrder == \E a \in 1..Len(arrival) : arrival[a] # a

\* C3: the chunks of the plan are in ascending start offset; whatever the
\* order in which the parallel tasks finish, the result of a finished task
\* is at the task's position in the collect() target, and the per-channel
\* result sequence is the concatenation of the per-chunk result lists in the
\* order of the plan.
C3_ResultsInChunkOrder ==
    /\ (Parallel(feature) /\ pc = "tasks") =>
          /\ \A k \in 1..Len(chunk_indices) - 1 :
                chunk_indices[k][1] < chunk_indices[k + 1][1]
          /\ \A k \in 1..Len(task) :
                task[k] = "done" =>
                    results[k] = TaskResult(feature, Current, chunk_indices[k][1],
                                            chunk_indices[k][2], frame_len, hop_len,
                                            samplerate)
          /\ AllDone =>
                Merged(feature, results) = SeqRun(Current, Len(chunk_indices))
    /\ Collected =>
          channel_results[Len(channel_results)]
              = SeqRun(channel_buffers[Len(channel_results)], Len(chunk_indices))

\* C3 witness: a channel of three chunks with results has been collected
\* after its tasks finished in an order that is not the order of the plan
C3_Witness ==
    /\ Collected
    /\ feature \in {"formant", "pitch"}
    /\ Len(chunk_indices) >= 3
    /\ OutOfOrder
    /\ arrival[1] = Len(chunk_indices)
    /\ \A k \in 1..Len(chunk_indices) :
          Len(ChunkList(channel_buffers[Len(channel_results)], k)) > 0

\* C4: the per-channel result sequence of the parallel run has the length
\* of the sequence the same kernel gives when it is run over the same plan
\* sequentially in chunk order.
C4_ParallelLength ==
    /\ AllDone /\ Parallel(feature) =>
          Len(Merged(feature, results)) = Len(SeqRun(Current, Len(chunk_indices)))
    /\ Collected =>
          Len(channel_results[Len(channel_results)])
              = Len(SeqRun(channel_buffers[Len(channel_results)], Len(chunk_indices)))

\* C4 witness: a collected channel of several tasks that finished out of
\* order, with a result sequence that is not empty
C4_Witness ==
    /\ Collected
    /\ Len(chunk_indices) >= 2
    /\ OutOfOrder
    /\ Len(channel_results[Len(channel_results)]) > Len(chunk_indices)

\* C5: the second run of the program on the same input and configuration
\* writes the table the first run wrote: the same header record and the same
\* data records, cell by cell, whatever the order in which the parallel tasks
\* of either run finished.
C5_SameTableTwice ==
    (pc = "done" /\ rerun) => << headers, rows >> = prev_rows

\* C5 witness: the second run has ended on a table with data rows from a
\* channel of several chunks
C5_Witness ==
    /\ pc = "done"
    /\ rerun
    /\ Parallel(feature)
    /\ Len(chunk_indices) >= 2
    /\ Len(rows) > Len(chunk_indices)
    /\ prev_rows[2] # << >>

\* the result sequences of the channels are complete
Merging == Parallel(feature) /\ pc \in {"write", "done"}

\* the value cells of channel c (from 1) in a row of the table
ValueCells(row, c) ==
    LET arity == Len(Columns(feature))
    IN  [k \in 1..arity |-> row[1 + (c - 1) * arity + k]]

NonDecreasing(seq) == \A i \in 1..Len(seq) - 1 : seq[i].t <= seq[i + 1].t

\* C6: within every per-channel result sequence the result times are
\* non-decreasing, also from the last entry of a chunk to the first entry of
\* the next chunk.
C6_TimesNonDecreasing ==
    \A c \in 1..Len(channel_results) : NonDecreasing(channel_results[c])

\* C7: for every feature, a channel without a sample of absolute value above
\* 1e-6 contributes an empty result sequence, no row of its own and no
\* non-empty value cell to the table.
C7_SilentChannelSkipped ==
    /\ \A c \in 1..Len(channel_results) :
          ~has_audio(channel_buffers[c]) => channel_results[c] = << >>
    /\ \A c \in 1..Len(channel_buffers) :
          ~has_audio(channel_buffers[c]) =>
              \A i \in 1..Len(rows) :
                  \A k \in 1..Len(Columns(feature)) : ValueCells(rows[i], c)[k] = ""
    /\ (\A c \in 1..Len(channel_buffers) : ~has_audio(channel_buffers[c])) =>
          rows = << >>

\* C8: the number of data rows of the finished table is the greatest length
\* among the channels' result sequences, 0 when every sequence is empty.
C8_RowCount ==
    (Merging /\ pc = "done") =>
        /\ \A c \in 1..Len(channel_results) : Len(channel_results[c]) <= Len(rows)
        /\ \/ \E c \in 1..Len(channel_results) : Len(channel_results[c]) = Len(rows)
           \/ Len(rows) = 0

\* C8 witness: a finished table of two channels whose second sequence is the
\* longer one
C8_Witness ==
    /\ Merging
    /\ pc = "done"
    /\ Len(channel_results) = 2
    /\ Len(channel_results[1]) < Len(channel_results[2])
    /\ Len(rows) = Len(channel_results[2])

\* C9: in the finished table the time_sec cell of row i is the formatted time of entry i of the
\* lowest-indexed channel whose sequence is longer than i, and it is not empty.
C9_TimeCell ==
    (Merging /\ pc = "done") =>
        \A i \in 0..Len(rows) - 1 :
            /\ \E c \in 1..Len(channel_results) :
                  /\ Len(channel_results[c]) > i
                  /\ \A d \in 1..c - 1 : Len(channel_results[d]) <= i
                  /\ rows[i + 1][1] = Fmt(channel_results[c][i + 1].t, samplerate, 4)
            /\ rows[i + 1][1] # ""

\* C9 witness: a finished table of several rows whose times come from the
\* second channel because the first channel, skipped as silent, has no entry
C9_Witness ==
    /\ Merging
    /\ pc = "done"
    /\ Len(channel_results) = 2
    /\ Len(channel_results[1]) = 0
    /\ Len(channel_results[2]) >= 2
    /\ Len(rows) = Len(channel_results[2])
    /\ rows[2][1] = Fmt(channel_results[2][2].t, samplerate, 4)
    /\ rows[2][1] # rows[1][1]

\* C10: for every feature, a channel without an entry at position i has the
\* empty string in each of its value cells of row i.
C10_AbsentCellsEmpty ==
    Merging =>
        \A i \in 0..Len(rows) - 1 :
            \A c \in 1..Len(channel_results) :
                Len(channel_results[c]) <= i =>
                    \A k \in 1..Len(Columns(feature)) : ValueCells(rows[i + 1], c)[k] = ""

\* value columns per channel: 1 for pitch, 4 for the formants, 5 for the
\* spectral features, 6 for jitter/shimmer/HNR, and 1 for the RMS plus 1 for
\* the energy in the table of the volume program
Arity ==
    CASE feature = "pitch" -> 1
      [] feature = "formant" -> 4
      [] feature = "spectral" -> 5
      [] feature = "jitter" -> 6
      [] feature = "volume" -> 1 + 1

Loaded == pc = "header" /\ channels >= 1

\* ceil(n / c) for c >= 1
CeilDiv(n, c) == (n + c - 1) \div c

\* sample index i of the stream is entry i div C of channel i mod C
SampleAtChannel ==
    \A i \in 0..Len(stream) - 1 :
        /\ Len(channel_buffers[(i % channels) + 1]) > i \div channels
        /\ channel_buffers[(i % channels) + 1][(i \div channels) + 1]
              = << stream[i + 1], I32_MAX >>

\* C12 as claimed: demultiplexing N samples over C >= 1 channels assigns
\* sample index i to channel i mod C in order and gives C buffers of length
\* ceil(N / C) each, also when N is not a multiple of C.
C12_DemuxEqualLengths ==
    Loaded =>
        /\ Len(channel_buffers) = channels
        /\ \A c \in 1..channels :
              Len(channel_buffers[c]) = CeilDiv(Len(stream), channels)
        /\ SampleAtChannel

\* C12 as amended: demultiplexing N samples over C >= 1 channels assigns
\* sample index i to channel i mod C in order and gives C buffers; channel c
\* (from 0) has length ceil((N - c) / C), which is ceil(N / C) for the first
\* N mod C channels, and for all channels when C divides N, and floor(N / C)
\* for the others.
C12_Demux ==
    Loaded =>
        LET N == Len(stream)
        IN  /\ Len(channel_buffers) = channels
            /\ \A c \in 0..channels - 1 :
                  /\ Len(channel_buffers[c + 1]) = CeilDiv(N - c, channels)
                  /\ Len(channel_buffers[c + 1])
                        = IF N % channels = 0 \/ c < N % channels
                          THEN CeilDiv(N, channels)
                          ELSE N \div channels
            /\ SampleAtChannel

\* C12 witness: a stream of two channels whose last frame lacks the sample of
\* the second channel, with different samples in the two channels
C12_Witness ==
    /\ Loaded
    /\ channels = 2
    /\ Len(stream) % 2 = 1
    /\ Len(stream) >= 3
    /\ Len(channel_buffers[2]) = Len(channel_buffers[1]) - 1
    /\ channel_buffers[1][1] # channel_buffers[2][1]

\* the stream header reports no channel or a sample rate of 0
InvalidAudio == channels = 0 \/ samplerate = 0

\* C13: when the decoder reports channel_count = 0 or sample_rate = 0 the run
\* fails with an invalid-audio error at startup: it gets no further than the
\* check, so no sample is demultiplexed, nothing is written, and it neither
\* panics, nor enters a loop, nor completes.
C13_InvalidAudioRejected ==
    InvalidAudio =>
        /\ pc \in {"load", "invalid_audio"}
        /\ channel_buffers = << >>
        /\ headers = << >>
        /\ rows = << >>

\* C14: on degenerate parameters (chunk_samples = 0, or overlap_samples at
\* least the channel length) the planner does not loop forever and ends with
\* an error or a single degenerate chunk: with chunk_samples = 0 the run is
\* never inside the planner loop or behind it, and with overlap_samples at
\* least the channel length the planner emits one chunk at most and after
\* that chunk its loop is over.
C14_DegeneratePlanTerminates ==
    Chunked(feature) =>
        /\ chunk_samples = 0 => pc \notin {"plan", "tasks"}
        /\ (pc = "plan" /\ overlap_samples >= Len(Current)) =>
              /\ Len(chunk_indices) <= 1
              /\ Len(chunk_indices) = 1 => start >= Len(Current)

\* C14 witness: the planner behind its single chunk (0, L) of a channel no
\* longer than the lookahead
C14_Witness ==
    /\ Chunked(feature)
    /\ pc = "plan"
    /\ overlap_samples >= Len(Current)
    /\ chunk_indices = << << 0, Len(Current) >> >>
    /\ start >= Len(Current)

\* a run with chunk_samples = 0 that ended at the division, before the planner
ZeroChunkSamplesPanic ==
    /\ Chunked(feature)
    /\ chunk_samples = 0
    /\ pc = "panic"
    /\ channels >= 1
    /\ chunk_indices = << >>

\* C15: no data row is written while a task of any channel is pending or
\* running: while a task is unfinished its channel has no result sequence yet
\* and the table has no row, and once a row is written every channel has its
\* result sequence and every task has finished.
C15_MergeAfterAllTasks ==
    /\ (\E k \in 1..Len(task) : task[k] # "done") =>
          /\ pc = "tasks"
          /\ Len(channel_results) < Len(channel_buffers)
          /\ rows = << >>
    /\ (Parallel(feature) /\ rows # << >>) =>
          /\ pc \in {"write", "done"}
          /\ Len(channel_results) = Len(channel_buffers)
          /\ \A k \in 1..Len(task) : task[k] = "done"

\* C15 witness: the first row of a table of two channels, both with result
\* entries, the last of them from several tasks
C15_Witness ==
    /\ pc = "write"
    /\ Len(rows) = 1
    /\ Len(channel_results) = 2
    /\ channel_results[1] # << >>
    /\ channel_results[2] # << >>
    /\ Len(task) >= 2

\* number of windows or frames that the task of chunk k analyses
ChunkFrames(k) ==
    LET n == chunk_indices[k][2] - chunk_indices[k][1]
    IN  CASE feature = "formant" -> FrameCount(n, frame_len, hop_len)
          [] feature = "pitch" -> n \div hop_len + 1
          [] feature = "jitter" -> 1

RECURSIVE PlanFrames(_)
PlanFrames(k) == IF k = 0 THEN 0 ELSE PlanFrames(k - 1) + ChunkFrames(k)

\* whether value k of entry e is absent
Absent(e, k) ==
    CASE feature = "formant" -> k > Len(e.v)
      [] feature = "pitch" -> e.v = None
      [] feature = "jitter" -> e.v[k] = None

\* a stream header with channels and a sample rate that gives a hop of one
\* sample at least
ValidAudio == samplerate > 0 /\ channels > 0 /\ hop_len > 0

\* C19: on valid audio, a channel with audio has exactly one entry for every
\* window or frame of its plan, whether or not the window or frame gave an
\* estimate; in the finished table every absent value of an entry is an
\* empty cell; and the run does not abort: it is never in the panic state
\* and can always take a step until it is done.
C19_NoEstimateIsData ==
    ValidAudio =>
        /\ Collected =>
               Len(channel_results[Len(channel_results)]) = PlanFrames(Len(chunk_indices))
        /\ (Merging /\ pc = "done") =>
               \A c \in 1..Len(channel_results) :
                   \A i \in 1..Len(channel_results[c]) :
                       \A k \in 1..Len(Columns(feature)) :
                           Absent(channel_results[c][i], k) =>
                               ValueCells(rows[i], c)[k] = ""
        /\ pc # "panic"
        /\ pc # "done" => ENABLED Next

\* C19 witness: a finished run with a channel that has audio and several
\* entries, the first of them without any estimate and written as empty
\* cells
C19_Witness ==
    /\ ValidAudio
    /\ Merging
    /\ pc = "done"
    /\ has_audio(channel_buffers[1])
    /\ Len(channel_results[1]) >= 2
    /\ \A k \in 1..Len(Columns(feature)) :
           /\ Absent(channel_results[1][1], k)
           /\ ValueCells(rows[1], 1)[k] = ""
    /\ Len(rows) = Len(channel_results[1])

(***************************************************************************)
(* The formant kernel on its own: find_formants applied to one frame of    *)
(* 512 samples at 20480 Hz, the frame being a train of pulses of a given   *)
(* period, phase and height, and the row of the frame written.             *)
(***************************************************************************)
FormantRates == {20480}
PulsePeriods == {6, 10, 30, 40, 60, 150, 600}
PulsePhases == 0..1
PulseHeights == {-1, 2}

PulseTrain(period, phase, height, n) ==
    [i \in 1..n |-> IF (i - 1) % period = phase THEN height ELSE 0]

InitFormant ==
    /\ feature = "formant"
    /\ samplerate \in FormantRates
    /\ channels = 1
    /\ bits_per_sample \in PipelineDepths
    /\ frame_len = FrameLenOf(feature, samplerate)
    /\ hop_len = HopLenOf(feature, samplerate)
    /\ chunk_samples = ChunkSamplesOf(samplerate)
    /\ overlap_samples = frame_len
    /\ \E period \in PulsePeriods, phase \in PulsePhases, height \in PulseHeights :
           stream = PulseTrain(period, phase, height, frame_len)
    /\ min_f0 = MinF0
    /\ max_f0 = MaxF0
    /\ pc = "frame"
    /\ channel_buffers = Demux(stream, 1)
    /\ headers = << >>
    /\ channel_results = << >>
    /\ start = 0
    /\ chunk_indices = << >>
    /\ task = << >>
    /\ results = << >>
    /\ chunk_bar = 0
    /\ channel_bar = 0
    /\ rows = << >>
    /\ arrival = << >>
    /\ rerun = FALSE
    /\ prev_rows = << >>
    /\ NoDriver

\* the body of the frame loop for the frame at `start`
AnalyzeFrame ==
    /\ pc = "frame"
    /\ channel_results' =
           << << [t |-> start,
                  v |-> find_formants(ChunkFrame(channel_buffers[1], start, frame_len),
                                      samplerate)] >> >>
    /\ pc' = "write"
    /\ UNCHANGED << inputs, params, channel_buffers, headers, start, chunk_indices, task,
                    results, chunk_bar, channel_bar, rows, arrival, rerun, prev_rows >>

NextFormant == AnalyzeFrame \/ WriteRow \/ Finish

SpecFormant == InitFormant /\ [][NextFormant]_vars

\* the lags the peak loop visits
PeakLoopLags ==
    samplerate \div MaxFormantHz
        .. Min(samplerate \div MinFormantHz, Min(AutocorrWindow, frame_len) \div 2 - 1) - 1

\* the lags of the analysed frame that qualify as formants
QualifyingLags ==
    {i \in PeakLoopLags :
        IsFormantPeak(PreEmphasized(channel_buffers[1]), Min(AutocorrWindow, frame_len),
                      samplerate, i)}

FrameFormants == channel_results[1][1].v

\* C24: the formant kernel returns at most 4 frequencies, in ascending
\* order, each within 200..3000 Hz and each a qualifying peak of the frame;
\* every qualifying peak is returned unless 4 peaks of lower frequency are;
\* and in the row of the frame the formant cells of the frequencies found
\* come first, with two decimals, and the remaining cells are empty
\* (checked when the row of the frame has been written).
C24_UpToFourFormants ==
    (feature = "formant" /\ pc = "done" /\ Len(rows) = 1) =>
        /\ Len(FrameFormants) <= 4
        /\ \A k \in 1..Len(FrameFormants) - 1 :
               RatLess(FrameFormants[k], FrameFormants[k + 1])
        /\ \A k \in 1..Len(FrameFormants) :
               /\ FrameFormants[k][1] >= 200 * FrameFormants[k][2]
               /\ FrameFormants[k][1] <= 3000 * FrameFormants[k][2]
               /\ FrameFormants[k][1] = samplerate
               /\ FrameFormants[k][2] \in QualifyingLags
        /\ \A i \in QualifyingLags :
               \/ \E k \in 1..Len(FrameFormants) : FrameFormants[k] = << samplerate, i >>
               \/ /\ Len(FrameFormants) = 4
                  /\ RatLess(FrameFormants[4], << samplerate, i >>)
        /\ \A k \in 1..4 :
               ValueCells(rows[1], 1)[k] =
                   IF k <= Len(FrameFormants)
                   THEN Fmt(FrameFormants[k][1], FrameFormants[k][2], 2)
                   ELSE ""

\* C24 witness: a frame with more than 4 qualifying peaks, its row written
\* with the 4 lowest frequencies
C24_Witness ==
    /\ feature = "formant"
    /\ pc = "done"
    /\ Len(rows) = 1
    /\ Cardinality(QualifyingLags) > 4
    /\ Len(FrameFormants) = 4
    /\ ValueCells(rows[1], 1)[1] = "204.80"
    /\ ValueCells(rows[1], 1)[4] = "292.57"

\* frames with 3, 1 and 0 qualifying peaks
PeakCounts ==
    /\ feature = "formant"
    /\ pc = "done"
    /\ Cardinality(QualifyingLags) \in {0, 1, 3}
    /\ Len(FrameFormants) = Cardinality(QualifyingLags)

\* a frame with fewer than 4 qualifying peaks, its row written with trailing
\* empty cells
FewerFormants ==
    /\ feature = "formant"
    /\ pc = "done"
    /\ Len(rows) = 1
    /\ Len(FrameFormants) = 2
    /\ ValueCells(rows[1], 1) = << "256.00", "512.00", "", "" >>

(***************************************************************************)
(* Loading on its own, for the five analysis programs and for              *)
(* pre-process_hubert, on streams of 8, 16 and 24 bits per sample whose    *)
(* samples are the extremes of the depth and the values around zero.       *)
(***************************************************************************)
Programs == Features \cup {"hubert"}
LoadDepths == {8, 16, 24}
DepthSamples(bits) == {-Pow2(bits - 1), -1, 0, 1, Pow2(bits - 1) - 1}
LoadLens == 0..2

InitLoad ==
    /\ feature \in Programs
    /\ samplerate \in RatesOf(feature) \ {0}
    /\ channels \in 1..MaxChannels
    /\ bits_per_sample \in LoadDepths
    /\ \E n \in LoadLens : stream \in [1..n -> DepthSamples(bits_per_sample)]
    /\ frame_len = FrameLenOf("formant", samplerate)
    /\ hop_len = HopLenOf("formant", samplerate)
    /\ chunk_samples = ChunkSamplesOf(samplerate)
    /\ overlap_samples = frame_len
    /\ min_f0 = MinF0
    /\ max_f0 = MaxF0
    /\ Fresh
    /\ rerun = FALSE
    /\ prev_rows = << >>
    /\ NoDriver

\* preprocess_flac up to the channel buffers
HubertLoad ==
    /\ pc = "load"
    /\ feature = "hubert"
    /\ channels # 0 /\ samplerate # 0
    /\ channel_buffers' = HubertDemux(HubertSamples(stream, bits_per_sample), channels)
    /\ pc' = "header"
    /\ UNCHANGED << inputs, params, headers, channel_results, start, chunk_indices,
                    task, results, chunk_bar, channel_bar, rows, arrival, rerun, prev_rows >>

NextLoad == LoadSamples \/ HubertLoad

SpecLoad == InitLoad /\ [][NextLoad]_vars

\* the raw sample behind entry j of channel c
RawSample(c, j) == stream[(j - 1) * channels + c]

\* C18: after loading, every normalised sample is the raw sample over
\* 2^(bits_per_sample - 1), so its magnitude is at most 1, and 1 for a raw
\* sample of magnitude 2^(bits_per_sample - 1).
C18_NormalizedByDepth ==
    (pc = "header" /\ channels >= 1) =>
        \A c \in 1..Len(channel_buffers) :
            \A j \in 1..Len(channel_buffers[c]) :
                LET v == channel_buffers[c][j]
                    full == Pow2(bits_per_sample - 1)
                IN  /\ v[1] = RawSample(c, j)
                    /\ v[2] = full
                    /\ Abs(v[1]) <= v[2]
                    /\ Abs(RawSample(c, j)) = full => Abs(v[1]) = v[2]

\* the same for pre-process_hubert alone
HubertNormalizedByDepth == feature = "hubert" => C18_NormalizedByDepth

HubertFullScale ==
    /\ feature = "hubert"
    /\ pc = "header"
    /\ Len(stream) >= 1
    /\ stream[1] = -Pow2(bits_per_sample - 1)
    /\ channel_buffers[1][1][1] = -channel_buffers[1][1][2]

(***************************************************************************)
(* Claims about the window analysis, under SpecKernel.                      *)
(***************************************************************************)
Analyzed == pc = "analyzed"
WindowResult == channel_results[1][1]
WindowF0 == estimate_f0_autocorr(Windowed(channel_buffers[1]), samplerate, min_f0, max_f0)
\* number of pitch periods extracted from the analysed window; 0 without an F0
PeriodCount ==
    IF WindowF0 = None THEN 0
    ELSE Len(extract_periods(Windowed(channel_buffers[1]),
                             << samplerate * WindowF0[1][2], WindowF0[1][1] >>, samplerate))

\* C16: a window in which an F0 is found and fewer than 5 pitch periods are
\* extracted has no jitter-PPQ5 and no shimmer-APQ5, and its result still
\* carries the F0, sample_rate / lag for a lag of the search range.
C16_FewPeriodsKeepF0 ==
    (Analyzed /\ WindowF0 # None /\ PeriodCount < 5) =>
        /\ WindowResult.v[3] = None
        /\ WindowResult.v[5] = None
        /\ WindowResult.v[1] # None
        /\ \E lag \in Max(1, samplerate \div max_f0)..samplerate \div min_f0 :
               WindowResult.v[1] = Some(samplerate, lag)

C16_Witness ==
    /\ Analyzed
    /\ WindowF0 # None
    /\ PeriodCount = 3
    /\ WindowResult.v[1] = Some(samplerate, 2)
    /\ WindowResult.v[3] = None

\* C17: there are windows with 2, 3 or 4 extracted pitch periods for which
\* analyze_window returns a present jitter-local and a present
\* shimmer-local (sought among all windows of the model, at the sample rate
\* and the search range of the run).
C17_LocalMeasuresWithFewPeriods ==
    \E n \in KernelLens :
        \E w \in [1..n -> KernelSamples] :
            LET window == Demux(w, 1)[1]
                f0_hz == estimate_f0_autocorr(Windowed(window), samplerate, min_f0, max_f0)
                res == analyze_window(window, samplerate, 0, min_f0, max_f0)
            IN  /\ f0_hz # None
                /\ Len(extract_periods(Windowed(window),
                                       << samplerate * f0_hz[1][2], f0_hz[1][1] >>,
                                       samplerate)) \in 2..4
                /\ res.v[2] # None
                /\ res.v[4] # None

\* the local measures that the periods of the analysed window give
LocalMeasures ==
    LET periods == extract_periods(Windowed(channel_buffers[1]),
                                   << samplerate * WindowF0[1][2], WindowF0[1][1] >>,
                                   samplerate)
    IN  << calculate_jitter_local(periods, samplerate),
           calculate_shimmer_local([k \in 1..Len(periods) |->
                                       calculate_amplitude(periods[k])]) >>

\* a window with three periods whose local measures exist and are left out
FewPeriodsLocalLeftOut ==
    /\ Analyzed
    /\ PeriodCount = 3
    /\ LocalMeasures[1] # None
    /\ LocalMeasures[2] # None
    /\ WindowResult.v[2] = None
    /\ WindowResult.v[4] = None

\* the lag of the F0 of the analysed window
WindowLag == WindowF0[1][2]
\* harmonic and noise energy of the analysed window at its F0
WindowPowers == Powers(Windowed(channel_buffers[1]), WindowLag)
HnrOfPowers ==
    IF WindowPowers[1] > 0 /\ WindowPowers[2] > 0
    THEN DbOfRatio(WindowPowers[1], WindowPowers[2])
    ELSE IF WindowPowers[1] > 0 THEN Some(40, 1)
    ELSE Some(0, 1)

\* C20: a window with a valid F0 and at least 2 periods (extracted, and of
\* the window length over the period length) has the HNR
\* 10 * log10(harmonic / noise) when both energies are positive, 40 dB when
\* only the harmonic energy is positive and 0 dB when the harmonic energy is
\* not positive; the HNR is not absent.
C20_HnrPresent ==
    (/\ Analyzed
     /\ WindowF0 # None
     /\ PeriodCount >= 2
     /\ Len(channel_buffers[1]) \div WindowLag >= 2) =>
        /\ WindowResult.v[6] # None
        /\ WindowResult.v[6] = HnrOfPowers

\* the same for windows with at least 5 extracted periods
HnrWithFivePeriods ==
    (Analyzed /\ WindowF0 # None /\ PeriodCount >= 5) =>
        WindowResult.v[6] = HnrOfPowers

HnrRatioReached ==
    Analyzed /\ PeriodCount >= 5 /\ WindowPowers[1] > 0 /\ WindowPowers[2] > 0
HnrFortyReached ==
    Analyzed /\ PeriodCount >= 5 /\ WindowPowers[1] > 0 /\ WindowPowers[2] = 0

(***************************************************************************)
(* Claims about empty channels, the progress bars and the frames of the    *)
(* chunks, under Spec.                                                     *)
(***************************************************************************)
AllChannelsEmpty ==
    /\ Len(channel_buffers) >= 1
    /\ \A c \in 1..Len(channel_buffers) : Len(channel_buffers[c]) = 0

\* C21: in the formant, pitch and jitter programs a channel of length 0 is
\* never planned (no chunk or window of it exists), its result sequence is
\* empty, and a run whose channels are all of length 0 does not abort: it is
\* never in the panic state and can always take a step until it is done.
C21_EmptyChannel ==
    Parallel(feature) =>
        /\ \A c \in 1..Len(channel_results) :
               Len(channel_buffers[c]) = 0 => channel_results[c] = << >>
        /\ pc \in {"plan", "tasks"} => Len(Current) > 0
        /\ AllChannelsEmpty => /\ pc # "panic"
                               /\ pc # "done" => ENABLED Next

\* C21 witness: a finished run of the formant, pitch or jitter program on
\* two channels of length 0, with two empty result sequences and no row
C21_Witness ==
    /\ Parallel(feature)
    /\ pc = "done"
    /\ AllChannelsEmpty
    /\ Len(channel_buffers) = 2
    /\ channel_results = << << >>, << >> >>
    /\ channel_bar = 2
    /\ rows = << >>

\* tasks of the current channel that have finished
DoneTasks == {k \in 1..Len(task) : task[k] = "done"}

\* the counters in a state: the chunk bar counts the finished tasks, and has
\* the planned and the declared number of chunks when the channel has been
\* collected; the channel bar counts the channels handled, all of them once
\* the channel loop is over
CountersMatch ==
    Chunked(feature) =>
        /\ pc = "tasks" => chunk_bar = Cardinality(DoneTasks)
        /\ Collected =>
              /\ chunk_bar = Len(chunk_indices)
              /\ chunk_bar = TotalChunks(Len(channel_buffers[Len(channel_results)]),
                                         chunk_samples)
        /\ channel_bar = Len(channel_results)
        /\ pc \in {"write", "done"} => channel_bar = channels

\* the counters in a step: the channel bar stays or grows by one, with the
\* channel handled; the chunk bar stays, restarts at 0 for the bar of the next
\* channel, or grows by one, and grows exactly when a task finishes
CountersStep ==
    Chunked(feature) =>
        /\ channel_bar' = channel_bar \/ channel_bar' = channel_bar + 1
        /\ channel_bar' = channel_bar + 1 <=> Len(channel_results') = Len(channel_results) + 1
        /\ \/ chunk_bar' = chunk_bar
           \/ chunk_bar' = chunk_bar + 1
           \/ pc = "plan" /\ pc' = "tasks" /\ chunk_bar' = 0
        /\ chunk_bar' = chunk_bar + 1 <=>
               \E k \in 1..Len(task) : task[k] = "running" /\ task'[k] = "done"

\* C22: in the chunked programs the completion counts only grow, under every
\* interleaving of the tasks: the chunk counter is incremented once per
\* chunk task and equals the number of planned chunks, the declared total
\* ceil(L / chunk_samples), when the channel finishes; the channel counter is
\* incremented once per channel, skipped or processed, and equals the
\* channel count at the end.
C22_ProgressCounts == []CountersMatch /\ [][CountersStep]_vars

\* C22 witness: a finished run of two channels, the last of them collected
\* from several chunks whose tasks finished out of order
C22_Witness ==
    /\ Chunked(feature)
    /\ pc = "channel"
    /\ Collected
    /\ chunk_bar >= 2
    /\ OutOfOrder
    /\ channel_bar = Len(channel_results)

\* the chunk of the current channel that task k analyses
TaskChunk(k) == SubSeq(Current, chunk_indices[k][1] + 1, chunk_indices[k][2])

\* C23: in the formant program, where overlap_samples is the frame length,
\* every frame that a finished chunk task emitted has exactly frame_len
\* samples, and for every local offset j * hop_len below chunk_samples whose
\* frame ends inside the channel the task of chunk k emitted the frame at
\* that offset (as its entry j, counted from 0).
C23_NoFrameLostAtBoundary ==
    (feature = "formant" /\ pc = "tasks" /\ hop_len > 0) =>
        \A k \in DoneTasks :
            /\ \A i \in 1..Len(results[k]) :
                   Len(ChunkFrame(TaskChunk(k), results[k][i].t - chunk_indices[k][1],
                                  frame_len)) = frame_len
            /\ \A j \in 0..(chunk_samples - 1) \div hop_len :
                   chunk_indices[k][1] + j * hop_len + frame_len <= Len(Current) =>
                       /\ Len(results[k]) >= j + 1
                       /\ results[k][j + 1].t = chunk_indices[k][1] + j * hop_len

\* C23 witness: the first chunk of a plan of several chunks, finished, with
\* the frame that starts one hop before the chunk's nominal end and reaches
\* into the lookahead
C23_Witness ==
    /\ feature = "formant"
    /\ pc = "tasks"
    /\ overlap_samples = frame_len
    /\ Len(chunk_indices) >= 2
    /\ task[1] = "done"
    /\ Len(results[1]) >= chunk_samples
    /\ results[1][chunk_samples].t = chunk_samples - hop_len
    /\ chunk_samples - hop_len + frame_len > chunk_samples

\* the global frame starts of a result sequence
FrameStarts(seq) == {seq[i].t : i \in 1..Len(seq)}

\* C25: in the formant program no frame is analysed twice within a channel:
\* a collected result sequence has no two entries with the same global frame
\* start, so its length is the number of distinct frame starts.
C25_NoFrameTwice ==
    (feature = "formant" /\ pc = "channel") =>
        \A c \in 1..Len(channel_results) :
            Cardinality(FrameStarts(channel_results[c])) = Len(channel_results[c])

\* the frame at the nominal end of the first chunk, emitted by the first chunk
\* through the lookahead and again by the second chunk
BoundaryFrameTwice ==
    /\ feature = "formant"
    /\ pc = "channel"
    /\ Len(channel_results) = 1
    /\ Len(chunk_indices) >= 2
    /\ Len(channel_results[1]) > chunk_samples \div hop_len + 1
    /\ channel_results[1][chunk_samples \div hop_len + 1].t = chunk_samples
    /\ channel_results[1][chunk_samples \div hop_len + 2].t = chunk_samples

\* C26: for every sample rate of 1 Hz and more the hop is at least 1 sample,
\* so every running chunk or window task terminates, and the run does not
\* end in a panic before the table is written.
C26_TasksTerminate ==
    (samplerate >= 1 /\ Parallel(feature)) =>
        /\ hop_len >= 1
        /\ pc = "tasks" =>
               \A k \in 1..Len(task) :
                   task[k] = "running" =>
                       TaskTerminates(feature, chunk_indices[k][1], chunk_indices[k][2],
                                      frame_len, hop_len)
        /\ pc # "panic"

\* a chunk task of the formant program that runs and cannot finish, at a
\* sample rate of 1 Hz or more
TaskNeverEnds ==
    /\ feature = "formant"
    /\ samplerate >= 1
    /\ pc = "tasks"
    /\ \A k \in 1..Len(task) : task[k] = "running"
    /\ Len(task) >= 1
    /\ ~ENABLED Next

\* the jitter program stopped by the division by hop_len = 0, at a sample rate
\* of 1 Hz or more
HopZeroPanic == feature = "jitter" /\ samplerate >= 1 /\ pc = "panic"

\* C27: the extracted periods all have the same length, so in every window
\* for which a jitter-local or a jitter-PPQ5 is reported the value is 0 (in
\* exact arithmetic) and is written as 0.0000, whatever the signal.
C27_JitterAlwaysZero ==
    Analyzed =>
        /\ WindowResult.v[2] # None =>
               /\ WindowResult.v[2][1][1] = 0
               /\ FmtOpt(WindowResult.v[2], 4) = "0.0000"
        /\ WindowResult.v[3] # None =>
               /\ WindowResult.v[3][1][1] = 0
               /\ FmtOpt(WindowResult.v[3], 4) = "0.0000"

\* C27 witness: a window with both jitter values reported and a shimmer that
\* is not 0, so the amplitudes of its periods differ
C27_Witness ==
    /\ Analyzed
    /\ PeriodCount >= 5
    /\ WindowResult.v[2] # None
    /\ WindowResult.v[3] # None
    /\ WindowResult.v[4] # None
    /\ WindowResult.v[4][1][1] > 0
    /\ FmtOpt(WindowResult.v[3], 4) = "0.0000"

\* the sample rate from which a frame of 25 ms has 512 samples
MinFormantRate == (MinFormantFrame * 1000) \div FrameMs

\* C28: in the formant program every frame has floor(0.025 * sample_rate)
\* samples, fewer than 512 below 20480 Hz, and the kernel returns no formant
\* for it: in the finished table of an input below 20480 Hz every formant
\* cell of every row is empty, while the rows are there, one per result
\* position and at least one when a channel with audio holds a frame, each
\* with its time stamp.
C28_NoFormantsBelow20480 ==
    (feature = "formant" /\ samplerate < MinFormantRate /\ samplerate > 0) =>
        /\ frame_len = (FrameMs * samplerate) \div 1000
        /\ frame_len < MinFormantFrame
        /\ pc = "done" =>
              /\ Len(rows) = MaxLen(channel_results)
              /\ (\E c \in 1..Len(channel_buffers) :
                      /\ has_audio(channel_buffers[c])
                      /\ Len(channel_buffers[c]) >= frame_len) => Len(rows) >= 1
              /\ \A i \in 1..Len(rows) :
                     /\ rows[i][1] # ""
                     /\ \A c \in 1..Len(channel_results) :
                            ValueCells(rows[i], c) = << "", "", "", "" >>

\* C28 witness: a finished formant table at 100 Hz with several rows, the
\* second at time 0.0100, all formant cells empty
C28_Witness ==
    /\ feature = "formant"
    /\ samplerate = 100
    /\ pc = "done"
    /\ Len(rows) >= 2
    /\ rows[2] = << "0.0100", "", "", "", "" >>

(***************************************************************************)
(* The multi-feature driver (process_features): argument loop, validation  *)
(* and the calls of the feature modules.                                   *)
(***************************************************************************)
\* the features in the order of the calls
DriverFeatures == << "rms", "pitch", "spectral", "jitter", "formant" >>

FeatureNames == {DriverFeatures[k] : k \in 1..Len(DriverFeatures)}

InFlag(f) == "--" \o f \o "-in"
OutFlag(f) == "--" \o f \o "-out"

\* the arms of the match in the argument loop, the default arm apart
Flags == {InFlag(f) : f \in FeatureNames} \cup {OutFlag(f) : f \in FeatureNames}

\* Option<String>, Option of the exit status: <<>> is None, <<x>> is Some(x)
SomeOf(x) == << x >>

\* the validation of one feature, were only the input looked at
IncompleteInputOnly(opts, f) ==
    /\ opts[InFlag(f)] # None \/ opts[OutFlag(f)] # None
    /\ opts[InFlag(f)] = None

\* run_f && (f_input.is_none() || f_output.is_none())
Incomplete(opts, f) ==
    /\ opts[InFlag(f)] # None \/ opts[OutFlag(f)] # None
    /\ opts[InFlag(f)] = None \/ opts[OutFlag(f)] = None

\* run_f
RunFlag(opts, f) == opts[InFlag(f)] # None \/ opts[OutFlag(f)] # None

\* the position of the main thread at the call of feature k, after the last
\* call the final message
RunPc(k) == IF k <= Len(DriverFeatures) THEN "run-" \o DriverFeatures[k] ELSE "complete"

\* how a call of process() ends: Ok, Err, or a panic inside the module
Outcomes == {"ok", "err", "panic"}

\* argument vectors: the program name, then some of the ten flags, each with
\* a value, in the order of the usage text or in the opposite order, then
\* nothing, an argument that is no flag, or a flag without a value.  A value
\* is a file name, or a text that is also the name of a flag.
FlagsForward ==
    << "--rms-in", "--rms-out", "--pitch-in", "--pitch-out", "--spectral-in",
       "--spectral-out", "--jitter-in", "--jitter-out", "--formant-in", "--formant-out" >>

Reversed(seq) == [k \in 1..Len(seq) |-> seq[Len(seq) + 1 - k]]

FlagOrders == {FlagsForward, Reversed(FlagsForward)}

ValueKinds == {"file", "flag"}

ValueFor(flag, kind) == IF kind = "file" THEN flag \o ".file" ELSE "--rms-out"

Tails == {<< >>, << "--verbose" >>, << "--rms-in" >>}

Picked(order, picked) == LET Test(x) == x \in picked IN SelectSeq(order, Test)

WithValues(seq, kind) ==
    [k \in 1..2 * Len(seq) |->
        IF k % 2 = 1 THEN seq[(k + 1) \div 2] ELSE ValueFor(seq[k \div 2], kind)]

ArgVectors ==
    {<< "process_features" >> \o WithValues(Picked(order, picked), kind) \o tail :
        order \in FlagOrders, picked \in SUBSET Flags, kind \in ValueKinds, tail \in Tails}

InitDriver ==
    /\ args \in ArgVectors
    /\ arg_index = 0
    /\ options = [flag \in Flags |-> None]
    /\ ran = << >>
    /\ created = {}
    /\ exit_status = None
    /\ pc = "args"
    /\ feature = ""
    /\ samplerate = 0
    /\ channels = 0
    /\ stream = << >>
    /\ bits_per_sample = 0
    /\ frame_len = 0
    /\ hop_len = 0
    /\ chunk_samples = 0
    /\ overlap_samples = 0
    /\ min_f0 = MinF0
    /\ max_f0 = MaxF0
    /\ channel_buffers = << >>
    /\ headers = << >>
    /\ channel_results = << >>
    /\ start = 0
    /\ chunk_indices = << >>
    /\ task = << >>
    /\ results = << >>
    /\ chunk_bar = 0
    /\ channel_bar = 0
    /\ rows = << >>
    /\ arrival = << >>
    /\ rerun = FALSE
    /\ prev_rows = << >>

\* what the driver itself never touches
pipeline ==
    << feature, samplerate, channels, stream, bits_per_sample, params, channel_buffers,
       headers, channel_results, start, chunk_indices, task, results, chunk_bar,
       channel_bar, rows, arrival, rerun, prev_rows >>

\* std::process::exit(1)
Exit1 == pc' = "exit" /\ exit_status' = SomeOf(1)

\* if args.len() < 3 { print_usage(); exit(1) }; let mut i = 1
CheckArgCount ==
    /\ pc = "args"
    /\ IF Len(args) < 3
       THEN Exit1 /\ UNCHANGED arg_index
       ELSE pc' = "parse" /\ arg_index' = 1 /\ UNCHANGED exit_status
    /\ UNCHANGED << args, options, ran, created, pipeline >>

\* one iteration of the argument loop; args[i] of the code is args[arg_index + 1]
ParseArg ==
    /\ pc = "parse"
    /\ arg_index < Len(args)
    /\ LET arg == args[arg_index + 1]
       IN  IF arg \in Flags /\ arg_index + 1 < Len(args)
           THEN /\ options' = [options EXCEPT ![arg] = SomeOf(args[arg_index + 2])]
                /\ arg_index' = arg_index + 2
                /\ UNCHANGED << pc, exit_status >>
           ELSE Exit1 /\ UNCHANGED << options, arg_index >>
    /\ UNCHANGED << args, ran, created, pipeline >>

\* the checks after the loop: both arguments of every requested feature, and
\* one feature at least
Validate ==
    /\ pc = "parse"
    /\ arg_index >= Len(args)
    /\ IF \/ \E f \in FeatureNames : Incomplete(options, f)
          \/ \A f \in FeatureNames : ~RunFlag(options, f)
       THEN Exit1
       ELSE pc' = RunPc(1) /\ UNCHANGED exit_status
    /\ UNCHANGED << args, arg_index, options, ran, created, pipeline >>

\* if run_f { f::process(&f_input.unwrap(), &f_output.unwrap())?; }: unwrap
\* of None panics (status 101), an Err leaves main and the status is 1
RunFeature(k) ==
    /\ pc = RunPc(k)
    /\ k <= Len(DriverFeatures)
    /\ LET f == DriverFeatures[k]
       IN  IF ~RunFlag(options, f)
           THEN pc' = RunPc(k + 1) /\ UNCHANGED << ran, created, exit_status >>
           ELSE IF options[InFlag(f)] = None \/ options[OutFlag(f)] = None
           THEN pc' = "exit" /\ exit_status' = SomeOf(101) /\ UNCHANGED << ran, created >>
           ELSE \E outcome \in Outcomes, written \in BOOLEAN :
                  /\ outcome = "ok" => written
                  /\ ran' = Append(ran, [name |-> f,
                                         input |-> options[InFlag(f)][1],
                                         output |-> options[OutFlag(f)][1],
                                         outcome |-> outcome])
                  /\ created' = IF written THEN created \cup {options[OutFlag(f)][1]}
                                ELSE created
                  /\ pc' = IF outcome = "ok" THEN RunPc(k + 1) ELSE "exit"
                  /\ exit_status' = CASE outcome = "ok" -> exit_status
                                      [] outcome = "err" -> SomeOf(1)
                                      [] OTHER -> SomeOf(101)
    /\ UNCHANGED << args, arg_index, options, pipeline >>

\* "All processing complete", Ok(())
Complete ==
    /\ pc = "complete"
    /\ pc' = "exit"
    /\ exit_status' = SomeOf(0)
    /\ UNCHANGED << args, arg_index, options, ran, created, pipeline >>

NextDriver ==
    \/ CheckArgCount
    \/ ParseArg
    \/ Validate
    \/ \E k \in 1..Len(DriverFeatures) : RunFeature(k)
    \/ Complete

SpecDriver == InitDriver /\ [][NextDriver]_vars

\* the arguments after the program name: argument k is args[k + 1]; reading
\* two by two, the odd positions hold the flags and the even ones the values
FlagPositions == {k \in 1..Len(args) - 1 : k % 2 = 1}

UnknownArgument == \E k \in FlagPositions : args[k + 1] \notin Flags

FlagLacksValue == \E k \in FlagPositions : args[k + 1] \in Flags /\ k = Len(args) - 1

Given(flag) == \E k \in FlagPositions : args[k + 1] = flag /\ k < Len(args) - 1

Requested(f) == Given(InFlag(f)) \/ Given(OutFlag(f))

OnlyOneOfPair(f) == Given(InFlag(f)) # Given(OutFlag(f))

Rejected ==
    \/ UnknownArgument
    \/ FlagLacksValue
    \/ \A f \in FeatureNames : ~Requested(f)
    \/ \E f \in FeatureNames : OnlyOneOfPair(f)

\* the value of a flag: the argument after its last occurrence
ValueOf(flag) ==
    LET last == CHOOSE k \in FlagPositions :
                    /\ args[k + 1] = flag
                    /\ \A j \in FlagPositions : args[j + 1] = flag => j <= k
    IN  args[last + 2]

\* the requested features in the fixed order
Due == SelectSeq(DriverFeatures, Requested)

Running == \E k \in 1..Len(DriverFeatures) : pc = RunPc(k)

\* C29: the driver checks all arguments before it calls any feature.  With
\* an unknown argument, a flag without value, no feature requested or a
\* feature with one of its two arguments only, no feature is called, no
\* output file is created and the exit status is 1.  Otherwise the calls
\* made are the requested features in the order rms, pitch, spectral, jitter,
\* formant, whatever the order of the arguments, each with its own input and
\* output; every call before the last one returned Ok, a call that returned
\* an error is the last one and the status is then 1, and the status is 0
\* only after all requested features ran.
C29_ValidationBeforeProcessing ==
    /\ Rejected =>
          /\ ran = << >>
          /\ created = {}
          /\ ~Running /\ pc # "complete"
          /\ pc = "exit" => exit_status = SomeOf(1)
    /\ ~Rejected =>
          /\ Len(ran) <= Len(Due)
          /\ \A k \in 1..Len(ran) :
                 /\ ran[k].name = Due[k]
                 /\ ran[k].input = ValueOf(InFlag(Due[k]))
                 /\ ran[k].output = ValueOf(OutFlag(Due[k]))
                 /\ k < Len(ran) => ran[k].outcome = "ok"
          /\ created \subseteq {ran[k].output : k \in 1..Len(ran)}
          /\ (ran # << >> /\ ran[Len(ran)].outcome # "ok") =>
                 /\ pc = "exit"
                 /\ ran[Len(ran)].outcome = "err" => exit_status = SomeOf(1)
          /\ pc = "exit" =>
                 /\ exit_status # None
                 /\ exit_status = SomeOf(0) =>
                        /\ Len(ran) = Len(Due)
                        /\ \A k \in 1..Len(ran) : ran[k].outcome = "ok"
                 /\ exit_status = SomeOf(1) =>
                        ran # << >> /\ ran[Len(ran)].outcome = "err"

\* C29 witness: the arguments name formant first and rms last; rms ran,
\* pitch returned an error, and spectral, jitter and formant, all requested,
\* were not called
C29_Witness ==
    /\ Len(args) = 21
    /\ args[2] = "--formant-out"
    /\ pc = "exit"
    /\ exit_status = SomeOf(1)
    /\ Len(ran) = 2
    /\ ran[1].name = "rms" /\ ran[1].outcome = "ok"
    /\ ran[2].name = "pitch" /\ ran[2].outcome = "err"
    /\ ran[2].input = "--pitch-in.file"
    /\ created = {"--rms-out.file"}

\* a rejected command line with complete features before the fault: rms is
\* requested with both arguments, formant with its input only
OnlyOneRejected ==
    /\ Requested("rms") /\ ~OnlyOneOfPair("rms")
    /\ OnlyOneOfPair("formant")
    /\ ~UnknownArgument /\ ~FlagLacksValue
    /\ pc = "exit"
    /\ exit_status = SomeOf(1)
    /\ ran = << >>

\* a value that is the text of a flag is taken as a value: rms runs with the
\* input "--rms-out"
FlagTextAsValue ==
    /\ ran # << >>
    /\ ran[1].name = "rms"
    /\ ran[1].input = "--rms-out"

====
